---------------------------- MODULE Spec2Model ----------------------------
(***************************************************************************)
(* A model of gtfs-proto: the diff engine (delta.py), the merge engine     *)
(* (dmerge.py) and the block container (wrapper.py).                       *)
(*                                                                         *)
(* Conventions.  A Python list is a sequence; Python index i of a list is  *)
(* TLA+ index i + 1.  A protobuf message is a record; a field left unset   *)
(* (or set to None) holds its type's default: 0, "" or <<>>.  String       *)
(* references are Python indexes into a StringCache, 0 meaning "none".     *)
(* A protobuf message carries many fields that the code treats by one of a *)
(* few patterns; the records below keep one field per pattern and name the *)
(* fields it stands for.                                                   *)
(***************************************************************************)
EXTENDS Integers, Sequences, FiniteSets, TLC

VARIABLES
    pc,       \* position of the running tool: delta() or delta_merge()
    kind,     \* the entity collection the input documents populate
    feed1,    \* delta(): the old feed
    feed2,    \* delta(): the new feed
    feed3,    \* the feed after feed2, when a chain of three is compared
    delta,    \* delta(): the GtfsDelta being built; delta_merge(): the merged delta
    old_delta, \* delta_merge(): the first delta, as stored in the file options.old
    second,   \* delta_merge(): the second delta
    today,    \* dt.date.today() of the run
    output,   \* what has been written to the output file ("none" before)
    io        \* block container: the document written, the file, the reader

vars == <<pc, kind, feed1, feed2, feed3, delta, old_delta, second, today, output, io>>

----------------------------------------------------------------------------
(* Bounds of the model. *)

\* Entity ids of a collection are 1..MaxId.
MaxId == 1
\* The new feed's string table holds MaxStr strings after index 0; the old
\* feed's table holds the first MaxStr - 1 of them.
MaxStr == 2

----------------------------------------------------------------------------
(* Generic helpers. *)

Last(s) == s[Len(s)]

RECURSIVE SetToSeq(_)
\* The elements of a finite set of integers in ascending order.
SetToSeq(S) ==
    IF S = {} THEN <<>>
    ELSE LET m == CHOOSE x \in S : \A y \in S : x <= y
         IN <<m>> \o SetToSeq(S \ {m})

\* Python's "x or y" on values whose falsy value is `zero`.
Or(x, y, zero) == IF x # zero THEN x ELSE y

----------------------------------------------------------------------------
(* StringCache (base.py). *)

\* The dict comprehension of __init__: every non-empty string maps to the
\* last index holding it.
StringCache_index(strings) ==
    [s \in {strings[i] : i \in 1..Len(strings)} \ {""} |->
        (CHOOSE i \in 1..Len(strings) :
            /\ strings[i] = s
            /\ \A j \in 1..Len(strings) : strings[j] = s => j <= i) - 1]

StringCache(source) ==
    LET strings == IF source = <<>> THEN <<"">> ELSE source
    IN [strings |-> strings, index |-> StringCache_index(strings)]

\* index.get(s): 0 stands for None (both are falsy where the result is used).
StringCache_lookup(c, s) == IF s \in DOMAIN c.index THEN c.index[s] ELSE 0

StringCache_add(c, s) ==
    LET i == StringCache_lookup(c, s)
    IN IF i # 0
       THEN [cache |-> c, id |-> i]
       ELSE [cache |-> [strings |-> Append(c.strings, s),
                        index |-> (s :> Len(c.strings)) @@ c.index],
             id |-> Len(c.strings)]

\* strings[i] for a Python index i.
StringCache_getitem(c, i) == c.strings[i + 1]

----------------------------------------------------------------------------
(* DeltaMaker (delta.py).  A DeltaMaker is the record                      *)
(* [s_old, s_new, strings]; every method returns the updated maker with    *)
(* its result, since methods append to the delta's string table.           *)

DeltaMaker(old_strings, new_strings, delta_strings) ==
    [s_old |-> old_strings, s_new |-> new_strings, strings |-> delta_strings]

DeltaMaker_add_string(dm, sid) ==
    IF sid # 0
    THEN LET r == StringCache_add(dm.strings, StringCache_getitem(dm.s_new, sid))
         IN [dm |-> [dm EXCEPT !.strings = r.cache], id |-> r.id]
    ELSE [dm |-> dm, id |-> 0]

\* Variant of from_old that looks the text up in the delta's own table
\* rather than in the new feed's.
DeltaMaker_from_old_delta_table(dm, old_str) ==
    IF old_str = 0 THEN 0
    ELSE StringCache_lookup(dm.strings, StringCache_getitem(dm.s_old, old_str))

DeltaMaker_from_old(dm, old_str) ==
    IF old_str = 0 THEN 0
    ELSE dm.s_new.index[StringCache_getitem(dm.s_old, old_str)]

\* None is stored as the field's default, 0.
DeltaMaker_if_str_changed(dm, old_str, new_str) ==
    IF old_str # new_str
    THEN DeltaMaker_add_string(dm, new_str)
    ELSE [dm |-> dm, id |-> 0]

RECURSIVE DeltaMaker_add_strings(_, _)
\* "for i in range(len(l)): l[i] = self.add_string(l[i])"
DeltaMaker_add_strings(dm, l) ==
    IF l = <<>> THEN [dm |-> dm, ids |-> <<>>]
    ELSE LET h == DeltaMaker_add_string(dm, Head(l))
             t == DeltaMaker_add_strings(h.dm, Tail(l))
         IN [dm |-> t.dm, ids |-> <<h.id>> \o t.ids]

\* "for i in range(len(l)): l[i] = self.from_old(l[i])"
DeltaMaker_from_old_all(dm, l) ==
    [i \in 1..Len(l) |-> DeltaMaker_from_old(dm, l[i])]

(* gtfs.Agency: agency_id, name, url, timezone.  url stands for lang,      *)
(* phone, fare_url and email, which the code treats exactly like url.      *)
Agency(agency_id, name, url, timezone) ==
    [agency_id |-> agency_id, name |-> name, url |-> url,
     timezone |-> timezone]

\* {a.agency_id: a for a in a1}: the ids, and the record of an id.
AgencyIds(a) == {a[i].agency_id : i \in 1..Len(a)}
AgencyOf(a, k) == a[CHOOSE i \in 1..Len(a) :
                        a[i].agency_id = k
                        /\ \A j \in 1..Len(a) : a[j].agency_id = k => j <= i]

RECURSIVE DeltaMaker_agencies_loop(_, _, _, _, _)
DeltaMaker_agencies_loop(dm, a1, a2, i, result) ==
    IF i > Len(a2) THEN [dm |-> dm, result |-> result]
    ELSE
      LET v == a2[i]
          k == v.agency_id
      IN IF k \notin AgencyIds(a1)
         THEN LET s == DeltaMaker_add_string(dm, v.timezone)
              IN DeltaMaker_agencies_loop(s.dm, a1, a2, i + 1,
                     Append(result, [v EXCEPT !.timezone = s.id]))
         ELSE LET o == AgencyOf(a1, k)
                  old == [o EXCEPT !.timezone = DeltaMaker_from_old(dm, o.timezone)]
              IN IF v # old
                 THEN LET s == DeltaMaker_if_str_changed(dm, old.timezone, v.timezone)
                      IN DeltaMaker_agencies_loop(s.dm, a1, a2, i + 1,
                             Append(result, Agency(
                                 k,
                                 IF old.name = v.name THEN "" ELSE v.name,
                                 IF old.url = v.url THEN "" ELSE v.url,
                                 s.id)))
                 ELSE DeltaMaker_agencies_loop(dm, a1, a2, i + 1, result)

DeltaMaker_agencies(dm, a1, a2) ==
    DeltaMaker_agencies_loop(dm, a1, a2, 1, <<>>)


(* gtfs.Shape: shape_id, longitudes, latitudes. *)
Shape(shape_id, longitudes, latitudes) ==
    [shape_id |-> shape_id, longitudes |-> longitudes, latitudes |-> latitudes]

ShapeIds(s) == {s[i].shape_id : i \in 1..Len(s)}
ShapeOf(s, k) == s[CHOOSE i \in 1..Len(s) :
                      s[i].shape_id = k
                      /\ \A j \in 1..Len(s) : s[j].shape_id = k => j <= i]

DeltaMaker_shapes(s1, s2) ==
    LET gone(s) == s.shape_id \notin ShapeIds(s2)
        tomb == SelectSeq(s1, gone)
        changed(v) ==
               IF v.shape_id \notin ShapeIds(s1) THEN TRUE
               ELSE LET old == ShapeOf(s1, v.shape_id)
                    IN old.longitudes # v.longitudes \/ old.latitudes # v.latitudes
    IN [i \in 1..Len(tomb) |-> Shape(tomb[i].shape_id, <<>>, <<>>)]
       \o SelectSeq(s2, changed)

(* gtfs.Stop: stop_id, code, name, desc, lat, lon, type, delete.           *)
(* In DeltaMaker.stops code stands for desc, platform_code and             *)
(* external_str_id, and for parent_id and external_int_id (0 for "");      *)
(* type stands for wheelchair.  In DeltaMerger.stops desc stands for       *)
(* parent_id, platform_code, external_str_id and external_int_id.          *)
Stop(stop_id, code, name, desc, lat, lon, type, delete) ==
    [stop_id |-> stop_id, code |-> code, name |-> name, desc |-> desc,
     lat |-> lat, lon |-> lon, type |-> type, delete |-> delete]

StopIds(s) == {s[i].stop_id : i \in 1..Len(s)}
StopOf(s, k) == s[CHOOSE i \in 1..Len(s) :
                     s[i].stop_id = k
                     /\ \A j \in 1..Len(s) : s[j].stop_id = k => j <= i]

RECURSIVE DeltaMaker_stops_loop(_, _, _, _, _)
DeltaMaker_stops_loop(dm, s1, s2, i, result) ==
    IF i > Len(s2) THEN [dm |-> dm, result |-> result]
    ELSE
      LET v == s2[i]
          k == v.stop_id
      IN IF k \notin StopIds(s1)
         THEN LET s == DeltaMaker_add_string(dm, v.name)
              IN DeltaMaker_stops_loop(s.dm, s1, s2, i + 1,
                     Append(result, [v EXCEPT !.name = s.id]))
         ELSE LET o == StopOf(s1, k)
                  old == [o EXCEPT !.name = DeltaMaker_from_old(dm, o.name)]
              IN IF old # v
                 THEN LET s == DeltaMaker_if_str_changed(dm, old.name, v.name)
                          same_pos == old.lat = v.lat /\ old.lon = v.lon
                      IN DeltaMaker_stops_loop(s.dm, s1, s2, i + 1,
                             Append(result, Stop(
                                 k,
                                 IF old.code = v.code THEN "" ELSE v.code,
                                 s.id,
                                 IF old.desc = v.desc THEN "" ELSE v.desc,
                                 IF same_pos THEN 0 ELSE v.lat,
                                 IF same_pos THEN 0 ELSE v.lon,
                                 v.type,
                                 FALSE)))
                 ELSE DeltaMaker_stops_loop(dm, s1, s2, i + 1, result)

DeltaMaker_stops(dm, s1, s2) ==
    LET gone(x) == x.stop_id \notin StopIds(s2)
        tomb == SelectSeq(s1, gone)
    IN DeltaMaker_stops_loop(dm, s1, s2, 1,
           [i \in 1..Len(tomb) |->
               Stop(tomb[i].stop_id, "", 0, "", 0, 0, 0, TRUE)])

(* gtfs.RouteItinerary: itinerary_id, headsign, stop_headsigns, shape_id.  *)
(* shape_id stands for opposite_direction and stops.                       *)
RouteItinerary(itinerary_id, headsign, stop_headsigns, shape_id) ==
    [itinerary_id |-> itinerary_id, headsign |-> headsign,
     stop_headsigns |-> stop_headsigns, shape_id |-> shape_id]

ItineraryIds(l) == {l[i].itinerary_id : i \in 1..Len(l)}
ItineraryOf(l, k) == l[CHOOSE i \in 1..Len(l) :
                          l[i].itinerary_id = k
                          /\ \A j \in 1..Len(l) : l[j].itinerary_id = k => j <= i]

RECURSIVE DeltaMaker_itineraries_loop(_, _, _, _, _)
DeltaMaker_itineraries_loop(dm, i1, i2, i, result) ==
    IF i > Len(i2) THEN [dm |-> dm, result |-> result]
    ELSE
      LET v == i2[i]
          k == v.itinerary_id
          has_old == k \in ItineraryIds(i1)
          o == ItineraryOf(i1, k)
          old == [o EXCEPT !.headsign = DeltaMaker_from_old(dm, o.headsign),
                           !.stop_headsigns =
                               DeltaMaker_from_old_all(dm, o.stop_headsigns)]
      IN IF ~has_old \/ old # v
         THEN LET h == DeltaMaker_add_string(dm, v.headsign)
                  sh == DeltaMaker_add_strings(h.dm, v.stop_headsigns)
              IN DeltaMaker_itineraries_loop(sh.dm, i1, i2, i + 1,
                     Append(result, [v EXCEPT !.headsign = h.id,
                                              !.stop_headsigns = sh.ids]))
         ELSE DeltaMaker_itineraries_loop(dm, i1, i2, i + 1, result)

DeltaMaker_itineraries(dm, i1, i2) ==
    LET gone(x) == x.itinerary_id \notin ItineraryIds(i2)
        tomb == SelectSeq(i1, gone)
    IN DeltaMaker_itineraries_loop(dm, i1, i2, 1,
           [i \in 1..Len(tomb) |->
               RouteItinerary(tomb[i].itinerary_id, 0, <<>>, 0)])

(* gtfs.Route: route_id, agency_id, short_name, long_name, type,           *)
(* itineraries, delete.  short_name stands for desc; type stands for       *)
(* color, text_color, continuous_pickup and continuous_dropoff.            *)
Route(route_id, agency_id, short_name, long_name, type, itineraries, delete) ==
    [route_id |-> route_id, agency_id |-> agency_id, short_name |-> short_name,
     long_name |-> long_name, type |-> type, itineraries |-> itineraries,
     delete |-> delete]

RouteIds(r) == {r[i].route_id : i \in 1..Len(r)}
RouteOf(r, k) == r[CHOOSE i \in 1..Len(r) :
                      r[i].route_id = k
                      /\ \A j \in 1..Len(r) : r[j].route_id = k => j <= i]

\* Variant of the sort that leaves the list in the order it was given.
SortedItineraries_as_listed(l) == l

\* sorted(l, key=lambda it: it.itinerary_id), for distinct itinerary ids.
SortedItineraries(l) ==
    LET ids == SetToSeq(ItineraryIds(l))
    IN [i \in 1..Len(ids) |-> ItineraryOf(l, ids[i])]

\* The itinerary list handed to self.itineraries() for a new route: line
\* 161 has emptied v.itineraries before line 162 reads it.
DeltaMaker_routes_new_itineraries(v) == <<>>

RECURSIVE DeltaMaker_routes_loop(_, _, _, _, _)
DeltaMaker_routes_loop(dm, r1, r2, i, result) ==
    IF i > Len(r2) THEN [dm |-> dm, result |-> result]
    ELSE
      LET v == r2[i]
          k == v.route_id
      IN IF k \notin RouteIds(r1)
         THEN LET ln == DeltaMaker_add_strings(dm, v.long_name)
                  it == DeltaMaker_itineraries(ln.dm, <<>>,
                            DeltaMaker_routes_new_itineraries(v))
              IN DeltaMaker_routes_loop(it.dm, r1, r2, i + 1,
                     Append(result, [v EXCEPT !.long_name = ln.ids,
                                              !.itineraries = it.result]))
         ELSE
           LET o == RouteOf(r1, k)
               old == [o EXCEPT !.long_name =
                                    DeltaMaker_from_old_all(dm, o.long_name)]
               i1 == SortedItineraries(old.itineraries)
               i2 == SortedItineraries(v.itineraries)
               ni1 == [old EXCEPT !.itineraries = <<>>]
               ni2 == [v EXCEPT !.itineraries = <<>>]
           IN IF old # v
              THEN IF ni1 = ni2 /\ i1 = i2
                   THEN \* Just unsorted itineraries.
                        DeltaMaker_routes_loop(dm, r1, r2, i + 1, result)
                   ELSE
                     LET ln == IF ni1 = ni2 \/ old.long_name = v.long_name
                               THEN [dm |-> dm, ids |-> <<>>]
                               ELSE DeltaMaker_add_strings(dm, v.long_name)
                         r == IF ni1 = ni2
                              THEN Route(k, 0, "", <<>>, 0, <<>>, FALSE)
                              ELSE Route(
                                  k,
                                  IF old.agency_id # v.agency_id
                                      THEN 0 ELSE v.agency_id,
                                  IF old.short_name # v.short_name
                                      THEN "" ELSE v.short_name,
                                  ln.ids,
                                  v.type,
                                  <<>>,
                                  FALSE)
                         it == DeltaMaker_itineraries(ln.dm, old.itineraries,
                                                      v.itineraries)
                     IN DeltaMaker_routes_loop(it.dm, r1, r2, i + 1,
                            Append(result, [r EXCEPT !.itineraries = it.result]))
              ELSE DeltaMaker_routes_loop(dm, r1, r2, i + 1, result)

DeltaMaker_routes(dm, r1, r2) ==
    LET gone(x) == x.route_id \notin RouteIds(r2)
        tomb == SelectSeq(r1, gone)
    IN DeltaMaker_routes_loop(dm, r1, r2, 1,
           [i \in 1..Len(tomb) |->
               Route(tomb[i].route_id, 0, "", <<>>, 0, <<>>, TRUE)])

(* gtfs.Trip: trip_id, service_id, short_name, wheelchair, departures,      *)
(* arrivals, pickup_types.  service_id stands for itinerary_id,            *)
(* start_time, end_time and interval; wheelchair stands for bikes and      *)
(* approximate; pickup_types stands for dropoff_types.                     *)
Trip(trip_id, service_id, short_name, wheelchair, departures, arrivals, pickup_types) ==
    [trip_id |-> trip_id, service_id |-> service_id, short_name |-> short_name,
     wheelchair |-> wheelchair, departures |-> departures,
     arrivals |-> arrivals, pickup_types |-> pickup_types]

TripIds(t) == {t[i].trip_id : i \in 1..Len(t)}
TripOf(t, k) == t[CHOOSE i \in 1..Len(t) :
                     t[i].trip_id = k
                     /\ \A j \in 1..Len(t) : t[j].trip_id = k => j <= i]

DeltaMaker_trips_sparse(old, v) ==
    LET arr_dep_changed ==
            old.departures # v.departures \/ old.arrivals # v.arrivals
    IN Trip(v.trip_id,
            IF old.service_id = v.service_id THEN 0 ELSE v.service_id,
            IF old.short_name = v.short_name THEN "" ELSE v.short_name,
            v.wheelchair,
            IF ~arr_dep_changed THEN <<>> ELSE v.departures,
            IF ~arr_dep_changed THEN <<>> ELSE v.arrivals,
            IF old.pickup_types = v.pickup_types THEN <<>> ELSE v.pickup_types)

RECURSIVE DeltaMaker_trips_loop(_, _, _, _)
DeltaMaker_trips_loop(t1, t2, i, result) ==
    IF i > Len(t2) THEN result
    ELSE
      LET v == t2[i]
          k == v.trip_id
      IN IF k \notin TripIds(t1)
         THEN DeltaMaker_trips_loop(t1, t2, i + 1, Append(result, v))
         ELSE IF TripOf(t1, k) # v
         THEN DeltaMaker_trips_loop(t1, t2, i + 1,
                  Append(result, DeltaMaker_trips_sparse(TripOf(t1, k), v)))
         ELSE DeltaMaker_trips_loop(t1, t2, i + 1, result)

DeltaMaker_trips(t1, t2) ==
    LET gone(x) == x.trip_id \notin TripIds(t2)
        tomb == SelectSeq(t1, gone)
    IN DeltaMaker_trips_loop(t1, t2, 1,
           [i \in 1..Len(tomb) |->
               Trip(tomb[i].trip_id, 0, "", 0, <<>>, <<>>, <<>>)])

(* gtfs.Transfer: the six key fields, type, delete.  type stands for       *)
(* min_transfer_time.                                                      *)
Transfer(from_stop, to_stop, from_route, to_route, from_trip, to_trip, type, delete) ==
    [from_stop |-> from_stop, to_stop |-> to_stop, from_route |-> from_route,
     to_route |-> to_route, from_trip |-> from_trip, to_trip |-> to_trip,
     type |-> type, delete |-> delete]

transfer_key(t) ==
    <<t.from_stop, t.to_stop, t.from_route, t.to_route, t.from_trip, t.to_trip>>

TransferKeys(t) == {transfer_key(t[i]) : i \in 1..Len(t)}
TransferOf(t, k) == t[CHOOSE i \in 1..Len(t) :
                         transfer_key(t[i]) = k
                         /\ \A j \in 1..Len(t) : transfer_key(t[j]) = k => j <= i]

DeltaMaker_transfers(t1, t2) ==
    LET gone(x) == transfer_key(x) \notin TransferKeys(t2)
        tomb == SelectSeq(t1, gone)
        changed(v) == \/ transfer_key(v) \notin TransferKeys(t1)
                      \/ TransferOf(t1, transfer_key(v)) # v
    IN [i \in 1..Len(tomb) |->
           Transfer(tomb[i].from_stop, tomb[i].to_stop, tomb[i].from_route,
                    tomb[i].to_route, tomb[i].from_trip, tomb[i].to_trip,
                    0, TRUE)]
       \o SelectSeq(t2, changed)

(* A Python dict of ints is a function on a finite set of integers. *)
NoDict == [k \in {} |-> 0]

DeltaMaker_delta_dict(d1, d2) ==
    [k \in {x \in DOMAIN d2 : x \notin DOMAIN d1 \/ d1[x] # d2[x]} |-> d2[k]]

\* ch.update({k: 0 for k in d1 if k not in d2})
delta_dict_int(d1, d2) ==
    LET ch == DeltaMaker_delta_dict(d1, d2)
    IN [k \in DOMAIN ch \union (DOMAIN d1 \ DOMAIN d2) |->
           IF k \in DOMAIN d1 \ DOMAIN d2 THEN 0 ELSE ch[k]]

(* FareLinks: stop_areas, stop_zones, route_networks. *)
FareLinks(stop_areas, stop_zones, route_networks) ==
    [stop_areas |-> stop_areas, stop_zones |-> stop_zones,
     route_networks |-> route_networks]

DeltaMaker_fare_links(f1, f2) ==
    FareLinks(delta_dict_int(f1.stop_areas, f2.stop_areas),
              delta_dict_int(f1.stop_zones, f2.stop_zones),
              delta_dict_int(f1.route_networks, f2.route_networks))

----------------------------------------------------------------------------
(* Calendars (util.py).  A datetime.date is its day of January 2024, an    *)
(* integer 1..31; None is 0.  On the wire a date is the integer YYYYMMDD.  *)

\* to_int: int(d.strftime('%Y%m%d')), 0 for None.
to_int(d) == IF d = 0 THEN 0 ELSE 2024 * 10000 + 1 * 100 + d

\* int_to_date: date(d // 10000, (d % 10000) // 100, d % 100); the year and
\* the month select January 2024, the day is d % 100.
int_to_date(d) == d % 100

CalendarService(service_id, start_date, end_date, weekdays, added_days, removed_days) ==
    [service_id |-> service_id, start_date |-> start_date,
     end_date |-> end_date, weekdays |-> weekdays,
     added_days |-> added_days, removed_days |-> removed_days]

NoWeekdays == [i \in 1..7 |-> FALSE]

\* CalendarService(service_id=k): every other argument at its default.
CalendarService_stub(k) == CalendarService(k, 0, 0, NoWeekdays, <<>>, <<>>)

\* [d for d in dates if d > base_date]; base_date 0 (None) keeps all.
cut(dates, base_date) ==
    LET after(d) == d > base_date
    IN IF base_date = 0 THEN dates ELSE SelectSeq(dates, after)

cap(d, base_date) ==
    IF d = 0 \/ base_date = 0 \/ d > base_date THEN d ELSE base_date

CalendarService_equals(self, other, base_date) ==
    /\ self.service_id = other.service_id
    /\ cap(self.start_date, base_date) = cap(other.start_date, base_date)
    /\ cap(self.end_date, base_date) = cap(other.end_date, base_date)
    /\ self.weekdays = other.weekdays
    /\ cut(other.added_days, base_date) = cut(self.added_days, base_date)
    /\ cut(other.removed_days, base_date) = cut(self.removed_days, base_date)

RECURSIVE add_base_date(_, _)
\* Running sums of the stored offsets, starting from base_date.
add_base_date(d, base_date) ==
    IF d = <<>> THEN <<>>
    ELSE <<base_date + Head(d)>> \o add_base_date(Tail(d), base_date + Head(d))

RECURSIVE Pow2(_)
Pow2(n) == IF n = 0 THEN 1 ELSE 2 * Pow2(n - 1)

\* s.weekdays & (1 << i) > 0
BitSet(mask, i) == (mask \div Pow2(i)) % 2 = 1

RECURSIVE WeekdayMask(_, _)
\* sum(1 << i for i in range(7) if s.weekdays[i]), from Python index i on.
WeekdayMask(weekdays, i) ==
    IF i > 6 THEN 0
    ELSE (IF weekdays[i + 1] THEN Pow2(i) ELSE 0) + WeekdayMask(weekdays, i + 1)

parse_calendar(c) ==
    LET base_date == int_to_date(c.base_date)
        dates == [i \in 1..Len(c.dates) |-> add_base_date(c.dates[i], base_date)]
    IN [n \in 1..Len(c.services) |->
           LET s == c.services[n]
           IN CalendarService(
                  s.service_id,
                  IF s.start_date = 0 THEN 0 ELSE base_date + s.start_date,
                  IF s.end_date = 0 THEN 0 ELSE base_date + s.end_date,
                  [i \in 1..7 |-> BitSet(s.weekdays, i - 1)],
                  dates[s.added_days + 1],
                  dates[s.removed_days + 1])]

RECURSIVE SortInts(_)
\* sorted(dates): ascending, duplicates kept.
SortInts(s) ==
    IF s = <<>> THEN <<>>
    ELSE LET m == CHOOSE i \in 1..Len(s) : \A j \in 1..Len(s) : s[i] <= s[j]
         IN <<s[m]>> \o SortInts(SubSeq(s, 1, m - 1) \o SubSeq(s, m + 1, Len(s)))

RECURSIVE pack_sorted(_, _, _)
pack_sorted(sorted, base_date, prev) ==
    IF sorted = <<>> THEN <<>>
    ELSE IF Head(sorted) > base_date
         THEN <<Head(sorted) - prev>>
              \o pack_sorted(Tail(sorted), base_date, Head(sorted))
         ELSE pack_sorted(Tail(sorted), base_date, prev)

\* Variant of pack_dates that stores every date as its distance from
\* base_date.
pack_dates_from_base(dates, base_date) ==
    LET after(d) == d > base_date
        kept == SelectSeq(SortInts(dates), after)
    IN [i \in 1..Len(kept) |-> kept[i] - base_date]

pack_dates(dates, base_date) == pack_sorted(SortInts(dates), base_date, base_date)

\* Variant of find_or_add that appends without looking for an equal list.
find_or_add_appending(dates, data) ==
    [data |-> Append(data, dates), id |-> Len(data)]

\* The pool with `dates` appended unless an equal list is stored already,
\* and the Python index of the list.
find_or_add(dates, data) ==
    IF \E i \in 1..Len(data) : data[i] = dates
    THEN [data |-> data,
          id |-> (CHOOSE i \in 1..Len(data) :
                     data[i] = dates /\ \A j \in 1..(i - 1) : data[j] # dates) - 1]
    ELSE [data |-> Append(data, dates), id |-> Len(data)]

RECURSIVE build_calendar_loop(_, _, _, _, _)
build_calendar_loop(services, base_date, i, dates, out) ==
    IF i > Len(services) THEN [dates |-> dates, services |-> out]
    ELSE
      LET s == services[i]
          end_date == IF s.end_date = 0 THEN base_date
                      ELSE IF s.end_date < base_date THEN base_date + 1
                      ELSE s.end_date
          a == find_or_add(pack_dates(s.added_days, base_date), dates)
          r == find_or_add(pack_dates(s.removed_days, base_date), a.data)
      IN build_calendar_loop(services, base_date, i + 1, r.data,
             Append(out,
                 [service_id |-> s.service_id,
                  start_date |-> IF s.start_date = 0 \/ s.start_date < base_date
                                 THEN 0 ELSE s.start_date - base_date,
                  end_date |-> end_date - base_date,
                  weekdays |-> WeekdayMask(s.weekdays, 0),
                  added_days |-> a.id,
                  removed_days |-> r.id]))

\* build_calendar with base_date given (the callers modelled here pass it).
build_calendar(services, base_date) ==
    LET r == build_calendar_loop(services, base_date, 1, << <<>> >>, <<>>)
    IN [base_date |-> to_int(base_date), dates |-> r.dates,
        services |-> r.services]

ServiceIds(c) == {c[i].service_id : i \in 1..Len(c)}
ServiceOf(c, k) == c[CHOOSE i \in 1..Len(c) :
                        c[i].service_id = k
                        /\ \A j \in 1..Len(c) : c[j].service_id = k => j <= i]

\* DeltaMaker.calendar; today is dt.date.today().
DeltaMaker_calendar(c1, c2, day) ==
    LET cd1 == parse_calendar(c1)
        cd2 == parse_calendar(c2)
        bd == day - 1
        gone(x) == x.service_id \notin ServiceIds(cd2)
        tomb == SelectSeq(cd1, gone)
        changed(v) ==
            \/ v.service_id \notin ServiceIds(cd1)
            \/ ~CalendarService_equals(ServiceOf(cd1, v.service_id), v, bd)
    IN build_calendar(
           [i \in 1..Len(tomb) |-> CalendarService_stub(tomb[i].service_id)]
               \o SelectSeq(cd2, changed),
           int_to_date(c2.base_date))

----------------------------------------------------------------------------
(* Documents.  A GtfsProto is a record of its header, its string table and *)
(* its collections; a GtfsDelta has old_version in its header.             *)

Collections == {"agencies", "calendar", "shapes", "stops", "routes", "trips",
                "transfers", "networks", "areas", "fare_links"}

NoFareLinks == FareLinks(NoDict, NoDict, NoDict)

GtfsProto(version, date, strings, calendar) ==
    [header |-> [version |-> version, date |-> date, compressed |-> TRUE],
     strings |-> StringCache(strings),
     agencies |-> <<>>, calendar |-> calendar, shapes |-> <<>>,
     stops |-> <<>>, routes |-> <<>>, trips |-> <<>>, transfers |-> <<>>,
     networks |-> NoDict, areas |-> NoDict, fare_links |-> NoFareLinks]

\* gtfs.Calendar(): what the calendar property returns without a block.
NoCalendar == [base_date |-> 0, dates |-> <<>>, services |-> <<>>]

\* GtfsDelta(): an empty delta, compressed by default.
GtfsDelta ==
    [header |-> [old_version |-> 0, version |-> 0, date |-> 0,
                 compressed |-> TRUE],
     strings |-> StringCache(<<>>),
     agencies |-> <<>>, calendar |-> NoCalendar, shapes |-> <<>>,
     stops |-> <<>>, routes |-> <<>>, trips |-> <<>>, transfers |-> <<>>,
     networks |-> NoDict, areas |-> NoDict, fare_links |-> NoFareLinks]

\* GtfsDelta.write refuses a header with an empty version.
GtfsDelta_write_raises(d) == d.header.old_version = 0 \/ d.header.version = 0

----------------------------------------------------------------------------
(* delta(): lines 293-317 build the delta, line 318 writes it. *)

delta_make(f1, f2, day) ==
    LET dm0 == DeltaMaker(f1.strings, f2.strings, GtfsDelta.strings)
        ag == DeltaMaker_agencies(dm0, f1.agencies, f2.agencies)
        st == DeltaMaker_stops(ag.dm, f1.stops, f2.stops)
        ro == DeltaMaker_routes(st.dm, f1.routes, f2.routes)
    IN [header |-> [old_version |-> f1.header.version,
                    version |-> f2.header.version,
                    date |-> f2.header.date,
                    compressed |-> f2.header.compressed],
        strings |-> ro.dm.strings,
        agencies |-> ag.result,
        calendar |-> DeltaMaker_calendar(f1.calendar, f2.calendar, day),
        shapes |-> DeltaMaker_shapes(f1.shapes, f2.shapes),
        stops |-> st.result,
        routes |-> ro.result,
        trips |-> DeltaMaker_trips(f1.trips, f2.trips),
        transfers |-> DeltaMaker_transfers(f1.transfers, f2.transfers),
        networks |-> DeltaMaker_delta_dict(f1.networks, f2.networks),
        areas |-> DeltaMaker_delta_dict(f1.areas, f2.areas),
        fare_links |-> DeltaMaker_fare_links(f1.fare_links, f2.fare_links)]

DeltaMake ==
    /\ pc = "delta"
    /\ delta' = delta_make(feed1, feed2, today)
    /\ pc' = "delta_write"
    /\ UNCHANGED <<kind, feed1, feed2, feed3, old_delta, second, today, output, io>>

DeltaWrite ==
    /\ pc = "delta_write"
    /\ IF GtfsDelta_write_raises(delta)
       THEN pc' = "raised" /\ UNCHANGED output
       ELSE pc' = "written" /\ output' = delta
    /\ UNCHANGED <<kind, feed1, feed2, feed3, delta, old_delta, second, today, io>>

----------------------------------------------------------------------------
(* Input documents.  The feeds of one version chain share their string     *)
(* table: packing a version starts from the previous version's table and   *)
(* appends, so the old table is a prefix of the new one.  StringPool lists *)
(* the strings in the order they were first packed.                        *)

StringPool == <<"", "a", "b", "c", "d", "e">>

OldStrings == SubSeq(StringPool, 1, MaxStr)
NewStrings == SubSeq(StringPool, 1, MaxStr + 1)

\* The string references a record may hold in a table of n strings.
Refs(strings) == 0..(Len(strings) - 1)

\* Values of a text field: the old feed draws from the first two, the new
\* feed from all three, so a text can stay, appear, vanish or change.
Texts(strings) == IF strings = OldStrings THEN {"", "p"} ELSE {"", "p", "q"}

Ids == 1..MaxId

\* Every list of records with distinct ids from Ids in ascending order, the
\* record of id k being a body with its field idf set to k.
ListsById(Bodies, idf) ==
    UNION {
        {[i \in 1..Cardinality(S) |-> [f[SetToSeq(S)[i]] EXCEPT ![idf] = SetToSeq(S)[i]]] :
            f \in [S -> Bodies]} :
        S \in SUBSET Ids}

\* Every dict with keys from Ids and values from Values.
DictsOf(Values) == UNION {[S -> Values] : S \in SUBSET Ids}

\* An agency has a name (agency_name is required); the rest is optional.
AgencyLists(strings) ==
    ListsById({Agency(0, n, u, z) : n \in Texts(strings) \ {""},
                                       u \in {"", "u"}, z \in Refs(strings)},
                 "agency_id")

ShapeLists ==
    ListsById({Shape(0, lon, lat) : lon \in {<<1, 1>>, <<1, 2>>},
                                       lat \in {<<1, 1>>, <<2, 1>>}},
                 "shape_id")

\* (lat, lon) of a stop: unset, or one of three positions of which two
\* share the latitude.
Positions == {<<0, 0>>, <<1, 1>>, <<1, 2>>, <<2, 1>>}

StopLists(strings) ==
    ListsById({Stop(0, c, n, d, p[1], p[2], ty, FALSE) :
                      c \in Texts(strings), n \in Refs(strings),
                      d \in {"", "p"}, p \in Positions, ty \in {0, 1}},
                 "stop_id")

\* Lists of string references: none, or the last string of the table.
RefLists(strings) == {<<>>, <<Len(strings) - 1>>}

\* A route has no itinerary or the itinerary 1.
ItineraryLists(strings) ==
    {<<>>} \union
    {<<RouteItinerary(1, h, sh, sid)>> :
        h \in Refs(strings), sh \in RefLists(strings), sid \in {0, 1}}

RouteLists(strings) ==
    ListsById({Route(0, a, sn, ln, ty, it, FALSE) :
                      a \in {0, 1}, sn \in Texts(OldStrings),
                      ln \in RefLists(strings) \union {<<1>>}, ty \in {0, 1},
                      it \in ItineraryLists(strings)},
                 "route_id")

TripLists ==
    ListsById({Trip(0, s, sn, w, d, a, pt) :
                      s \in {1, 2}, sn \in {"", "p"}, w \in {0, 1},
                      d \in {<<5>>, <<6>>}, a \in {<<>>, <<1>>},
                      pt \in {<<>>, <<1>>}},
                 "trip_id")

\* Transfers between stops: from_stop is the list's id, to_stop and type vary.
TransferLists ==
    ListsById({Transfer(0, to, 0, 0, 0, 0, ty, FALSE) :
                      to \in {0, 1}, ty \in {0, 1, 2}},
                 "from_stop")

NameDicts == DictsOf({"n", "m"})

FareLinkSets ==
    {FareLinks(a, z, n) : a \in DictsOf({1, 2}), z \in DictsOf({1}),
                          n \in DictsOf({1, 2})}

AllWeekdays == [i \in 1..7 |-> TRUE]

\* The feeds were packed on days 5 and 6 (base date: two days before) and
\* are compared on day 8; service dates lie on both sides of these.
Days == [old_base |-> 3, new_base |-> 4, diff |-> 8]
OldBase == Days.old_base
NewBase == Days.new_base
DiffDay == Days.diff

ServiceLists ==
    ListsById({CalendarService(0, s, e, w, a, r) :
                      s \in {0, 2, 9}, e \in {0, 10}, w \in {NoWeekdays, AllWeekdays},
                      a \in {<<>>, <<9>>, <<2, 9>>}, r \in {<<>>, <<10>>}},
                 "service_id")

\* The calendar of a feed that populates another collection.
PlainCalendar(base_date) ==
    build_calendar(<<CalendarService(1, 0, 0, AllWeekdays, <<>>, <<>>)>>, base_date)

\* The values collection k of a feed with the given strings may take.
Inputs(k, strings, base_date) ==
    CASE k = "agencies" -> AgencyLists(strings)
      [] k = "calendar" -> {build_calendar(s, base_date) : s \in ServiceLists}
      [] k = "shapes" -> ShapeLists
      [] k = "stops" -> StopLists(strings)
      [] k = "routes" -> RouteLists(strings)
      [] k = "trips" -> TripLists
      [] k = "transfers" -> TransferLists
      [] k = "networks" -> NameDicts
      [] k = "areas" -> NameDicts
      [] k = "fare_links" -> FareLinkSets

Feeds(k, version, strings, base_date) ==
    {[GtfsProto(version, to_int(base_date + 2), strings, PlainCalendar(base_date))
         EXCEPT ![k] = c] : c \in Inputs(k, strings, base_date)}

Idle == "idle"

\* delta old new: two feeds of one chain that populate one collection.
Init ==
    /\ pc = "delta"
    /\ kind \in Collections
    /\ feed1 \in Feeds(kind, 1, OldStrings, OldBase)
    /\ feed2 \in Feeds(kind, 2, NewStrings, NewBase)
    /\ today = DiffDay
    /\ delta = GtfsDelta
    /\ feed3 = Idle
    /\ old_delta = Idle
    /\ second = Idle
    /\ output = "none"
    /\ io = Idle

Next == DeltaMake \/ DeltaWrite

Spec == Init /\ [][Next]_vars

----------------------------------------------------------------------------
(* The documented patch semantics (spec 4.4), used to state what a delta   *)
(* means: a tombstone removes the entity, a record whose id the old feed   *)
(* lacks is inserted, any other record overrides exactly its non-default   *)
(* fields.  Records are compared with their string references resolved to  *)
(* text, as a table from id to record.                                     *)

Text(strings, i) == StringCache_getitem(strings, i)
Texts_of(strings, l) == [i \in 1..Len(l) |-> Text(strings, l[i])]

\* The default of a field of a resolved record.
Default(f) ==
    CASE f \in {"name", "url", "code", "desc", "short_name", "timezone",
               "headsign"} -> ""
      [] f \in {"long_name", "stop_headsigns", "departures", "arrivals",
                "pickup_types", "longitudes", "latitudes", "itineraries"} -> <<>>
      [] f = "delete" -> FALSE
      [] OTHER -> 0

\* The table of a list of records keyed by field idf (the last record of a
\* key wins, as in a dict comprehension).
AsTable(l, idf) ==
    [k \in {l[i][idf] : i \in 1..Len(l)} |->
        l[CHOOSE i \in 1..Len(l) :
              l[i][idf] = k /\ \A j \in 1..Len(l) : l[j][idf] = k => j <= i]]

ResolvedItineraries(strings, l) ==
    AsTable([i \in 1..Len(l) |->
                [l[i] EXCEPT !.headsign = Text(strings, l[i].headsign),
                             !.stop_headsigns =
                                 Texts_of(strings, l[i].stop_headsigns)]],
            "itinerary_id")

\* Collection k of document doc as a table of resolved records.
Resolved(doc, k) ==
    LET l == doc[k]
        s == doc.strings
    IN CASE k = "agencies" ->
              AsTable([i \in 1..Len(l) |->
                          [l[i] EXCEPT !.timezone = Text(s, l[i].timezone)]],
                      "agency_id")
         [] k = "shapes" -> AsTable(l, "shape_id")
         [] k = "stops" ->
              AsTable([i \in 1..Len(l) |->
                          [l[i] EXCEPT !.name = Text(s, l[i].name)]], "stop_id")
         [] k = "routes" ->
              AsTable([i \in 1..Len(l) |->
                          [l[i] EXCEPT
                              !.long_name = Texts_of(s, l[i].long_name),
                              !.itineraries =
                                  ResolvedItineraries(s, l[i].itineraries)]],
                      "route_id")
         [] k = "trips" -> AsTable(l, "trip_id")
         [] k = "transfers" ->
              AsTable([i \in 1..Len(l) |->
                          [key |-> transfer_key(l[i]), type |-> l[i].type,
                           delete |-> l[i].delete]], "key")

IdField(k) ==
    CASE k = "agencies" -> "agency_id" [] k = "shapes" -> "shape_id"
      [] k = "stops" -> "stop_id" [] k = "routes" -> "route_id"
      [] k = "trips" -> "trip_id" [] k = "transfers" -> "key"
      [] k = "itineraries" -> "itinerary_id"

\* A record with only its id set.
IdOnly(d, idf) == \A f \in DOMAIN d \ {idf} : d[f] = Default(f)

IsTombstone(d, idf) ==
    IF "delete" \in DOMAIN d THEN d.delete ELSE IdOnly(d, idf)

RECURSIVE Patched(_, _, _)
\* Table old patched with the delta's table d.
Patched(old, d, idf) ==
    LET keep == {k \in DOMAIN old \union DOMAIN d :
                    ~(k \in DOMAIN d /\ IsTombstone(d[k], idf))}
        over(o, n) ==
            [f \in DOMAIN o |->
                IF f = "itineraries"
                THEN Patched(o[f], n[f], "itinerary_id")
                ELSE IF n[f] = Default(f) THEN o[f] ELSE n[f]]
    IN [k \in keep |->
           IF k \notin DOMAIN d THEN old[k]
           ELSE IF k \notin DOMAIN old THEN d[k]
           ELSE over(old[k], d[k])]

\* A dict patched with a delta dict; in fare links 0 removes the key.
PatchedDict(old, d, zero_removes) ==
    LET gone == IF zero_removes THEN {k \in DOMAIN d : d[k] = 0} ELSE {}
    IN [k \in (DOMAIN old \union DOMAIN d) \ gone |->
           IF k \in DOMAIN d THEN d[k] ELSE old[k]]

PatchedFareLinks(old, d) ==
    FareLinks(PatchedDict(old.stop_areas, d.stop_areas, TRUE),
              PatchedDict(old.stop_zones, d.stop_zones, TRUE),
              PatchedDict(old.route_networks, d.route_networks, TRUE))

Lists == {"agencies", "shapes", "stops", "routes", "trips", "transfers"}

\* Document old patched with delta d reproduces document new.
Reproduces(old, d, new) ==
    /\ \A k \in Lists :
           Patched(Resolved(old, k), Resolved(d, k), IdField(k)) = Resolved(new, k)
    /\ PatchedDict(old.networks, d.networks, FALSE) = new.networks
    /\ PatchedDict(old.areas, d.areas, FALSE) = new.areas
    /\ PatchedFareLinks(old.fare_links, d.fare_links) = new.fare_links

\* C1: patching the old feed with the delta written by delta() reproduces
\* every entity collection of the new feed.
C1_DiffApplyReproduces ==
    pc = "written" => Reproduces(feed1, output, feed2)

\* C5: every id of the old feed that the new feed lacks has a tombstone in
\* the delta: delete = TRUE for stops, routes and transfers, an id-only
\* record for agencies, trips and shapes.
C5_TombstoneForEveryRemovedId ==
    pc = "written" =>
        \A k \in Lists :
            \A id \in DOMAIN Resolved(feed1, k) \ DOMAIN Resolved(feed2, k) :
                /\ id \in DOMAIN Resolved(output, k)
                /\ IF k \in {"stops", "routes", "transfers"}
                   THEN Resolved(output, k)[id].delete
                   ELSE IdOnly(Resolved(output, k)[id], IdField(k))

\* C6: every id of the new feed that the old feed lacks has its full record
\* in the delta: each field, the whole itinerary list of a route, and the
\* text of each string reference are those of the new feed.
C6_FullRecordForEveryNewId ==
    pc = "written" =>
        \A k \in Lists :
            \A id \in DOMAIN Resolved(feed2, k) \ DOMAIN Resolved(feed1, k) :
                /\ id \in DOMAIN Resolved(output, k)
                /\ Resolved(output, k)[id] = Resolved(feed2, k)[id]

\* C7: every id of both feeds whose records differ has a sparse record in
\* the delta that holds, field by field, the new value where old and new
\* differ and the default where they are equal.
C7_SparseRecordFields ==
    pc = "written" =>
        \A k \in {"stops", "routes", "trips", "agencies"} :
            \A id \in DOMAIN Resolved(feed1, k) \cap DOMAIN Resolved(feed2, k) :
                LET old == Resolved(feed1, k)[id]
                    new == Resolved(feed2, k)[id]
                IN old # new =>
                     /\ id \in DOMAIN Resolved(output, k)
                     /\ \A f \in DOMAIN new \ {IdField(k), "delete", "itineraries"} :
                            Resolved(output, k)[id][f] =
                                IF old[f] # new[f] THEN new[f] ELSE Default(f)

----------------------------------------------------------------------------
(* delta S S: a feed compared with itself. *)

InitSelf ==
    /\ pc = "delta"
    /\ kind \in Collections
    /\ feed1 \in Feeds(kind, 2, NewStrings, NewBase)
    /\ feed2 = feed1
    /\ today = DiffDay
    /\ delta = GtfsDelta
    /\ feed3 = Idle
    /\ old_delta = Idle
    /\ second = Idle
    /\ output = "none"
    /\ io = Idle

SpecSelf == InitSelf /\ [][Next]_vars

\* C4: the delta of a feed against itself holds no record of any
\* collection and no calendar service.
C4_SelfDiffIsEmpty ==
    pc = "written" =>
        /\ \A k \in Lists \union {"networks", "areas"} : DOMAIN output[k] = {}
        /\ \A f \in DOMAIN output.fare_links : DOMAIN output.fare_links[f] = {}
        /\ output.calendar.services = <<>>

\* A feed with records in its collection was compared with itself.
C4_Witness ==
    /\ pc = "written"
    /\ feed2 = feed1
    /\ \/ kind \in Lists /\ feed1[kind] # <<>>
       \/ kind = "calendar" /\ Len(feed1.calendar.services) > 0

----------------------------------------------------------------------------
(* DeltaMerger (dmerge.py).  A DeltaMerger is the record [strings, s_new]: *)
(* the first delta's string table, which the merge appends to, and the     *)
(* second delta's.  A dict built from a list keeps insertion order, so it  *)
(* is the list itself: an assignment replaces the record of its key in     *)
(* place or appends it.                                                    *)

DeltaMerger(d_strings, new_strings) ==
    [strings |-> d_strings, s_new |-> new_strings]

\* Variant of add_string that keeps the second delta's index as it is.
DeltaMerger_add_string_same_index(dm, sid) == [dm |-> dm, id |-> sid]

DeltaMerger_add_string(dm, sid) ==
    IF sid # 0
    THEN LET r == StringCache_add(dm.strings, StringCache_getitem(dm.s_new, sid))
         IN [dm |-> [dm EXCEPT !.strings = r.cache], id |-> r.id]
    ELSE [dm |-> dm, id |-> 0]

RECURSIVE DeltaMerger_add_strings(_, _)
\* "for i in range(len(l)): l[i] = self.add_string(l[i])"
DeltaMerger_add_strings(dm, l) ==
    IF l = <<>> THEN [dm |-> dm, ids |-> <<>>]
    ELSE LET h == DeltaMerger_add_string(dm, Head(l))
             t == DeltaMerger_add_strings(h.dm, Tail(l))
         IN [dm |-> t.dm, ids |-> <<h.id>> \o t.ids]

\* d[r[idf]] = r on the dict kept as the list l.
DictSet(l, idf, r) ==
    IF \E i \in 1..Len(l) : l[i][idf] = r[idf]
    THEN [i \in 1..Len(l) |-> IF l[i][idf] = r[idf] THEN r ELSE l[i]]
    ELSE Append(l, r)

RECURSIVE DictOfList(_, _, _)
\* {x.id: x for x in l}, from the i-th record on, into the dict d.
DictOfList(l, idf, d) ==
    IF l = <<>> THEN d ELSE DictOfList(Tail(l), idf, DictSet(d, idf, Head(l)))

\* gtfs.Agency(a.agency_id): a protobuf message takes keyword arguments
\* only, a positional argument raises TypeError.
Agency_positional(agency_id) == "TypeError"

RECURSIVE DeltaMerger_agencies_loop(_, _, _, _)
DeltaMerger_agencies_loop(dm, ad1, a2, i) ==
    IF i > Len(a2) THEN [dm |-> dm, result |-> ad1, raised |-> FALSE]
    ELSE
      LET a == a2[i]
          id_only == Agency_positional(a.agency_id)
      IN IF id_only = "TypeError"
         THEN [dm |-> dm, result |-> ad1, raised |-> TRUE]
         ELSE IF a = id_only
         THEN DeltaMerger_agencies_loop(dm, DictSet(ad1, "agency_id", a), a2, i + 1)
         ELSE IF a.agency_id \notin AgencyIds(ad1)
         THEN LET z == DeltaMerger_add_string(dm, a.timezone)
              IN DeltaMerger_agencies_loop(z.dm,
                     DictSet(ad1, "agency_id", [a EXCEPT !.timezone = z.id]),
                     a2, i + 1)
         ELSE LET first == AgencyOf(ad1, a.agency_id)
                  z == DeltaMerger_add_string(dm, a.timezone)
              IN DeltaMerger_agencies_loop(z.dm,
                     DictSet(ad1, "agency_id",
                         Agency(a.agency_id,
                                Or(a.name, first.name, ""),
                                Or(a.url, first.url, ""),
                                Or(z.id, first.timezone, 0))),
                     a2, i + 1)

DeltaMerger_agencies(dm, a1, a2) ==
    DeltaMerger_agencies_loop(dm, DictOfList(a1, "agency_id", <<>>), a2, 1)

RECURSIVE DeltaMerger_calendar_loop(_, _)
DeltaMerger_calendar_loop(cd1, cd2) ==
    IF cd2 = <<>> THEN cd1
    ELSE DeltaMerger_calendar_loop(DictSet(cd1, "service_id", Head(cd2)),
                                   Tail(cd2))

DeltaMerger_calendar(c1, c2) ==
    build_calendar(
        DeltaMerger_calendar_loop(
            DictOfList(parse_calendar(c1), "service_id", <<>>),
            parse_calendar(c2)),
        int_to_date(c2.base_date))

DeltaMerger_shapes(s1, s2) ==
    DictOfList(s2, "shape_id", DictOfList(s1, "shape_id", <<>>))

RECURSIVE DeltaMerger_stops_loop(_, _, _, _)
DeltaMerger_stops_loop(dm, sd1, s2, i) ==
    IF i > Len(s2) THEN [dm |-> dm, result |-> sd1]
    ELSE
      LET n == DeltaMerger_add_string(dm, s2[i].name)
          s == [s2[i] EXCEPT !.name = n.id]
      IN IF s.delete \/ s.stop_id \notin StopIds(sd1)
         THEN DeltaMerger_stops_loop(n.dm, DictSet(sd1, "stop_id", s), s2, i + 1)
         ELSE LET first == StopOf(sd1, s.stop_id)
              IN DeltaMerger_stops_loop(n.dm,
                     DictSet(sd1, "stop_id",
                         Stop(s.stop_id,
                              Or(first.code, s.code, ""),
                              Or(s.name, first.name, 0),
                              Or(s.desc, first.desc, ""),
                              Or(s.lat, first.lat, 0),
                              Or(s.lon, first.lon, 0),
                              s.type,
                              FALSE)),
                     s2, i + 1)

DeltaMerger_stops(dm, s1, s2) ==
    DeltaMerger_stops_loop(dm, DictOfList(s1, "stop_id", <<>>), s2, 1)

RECURSIVE DeltaMerger_routes_strings(_, _)
\* "for it in r.itineraries": headsign and stop_headsigns are re-added.
DeltaMerger_routes_strings(dm, its) ==
    IF its = <<>> THEN [dm |-> dm, result |-> <<>>]
    ELSE LET it == Head(its)
             h == DeltaMerger_add_string(dm, it.headsign)
             sh == DeltaMerger_add_strings(h.dm, it.stop_headsigns)
             t == DeltaMerger_routes_strings(sh.dm, Tail(its))
         IN [dm |-> t.dm,
             result |-> <<[it EXCEPT !.headsign = h.id,
                                     !.stop_headsigns = sh.ids]>> \o t.result]

RECURSIVE DeltaMerger_routes_loop(_, _, _, _)
DeltaMerger_routes_loop(dm, rd1, r2, i) ==
    IF i > Len(r2) THEN [dm |-> dm, result |-> rd1]
    ELSE
      LET ln == DeltaMerger_add_strings(dm, r2[i].long_name)
          its == DeltaMerger_routes_strings(ln.dm, r2[i].itineraries)
          r == [r2[i] EXCEPT !.long_name = ln.ids, !.itineraries = its.result]
      IN IF r.delete \/ r.route_id \notin RouteIds(rd1)
         THEN DeltaMerger_routes_loop(its.dm, DictSet(rd1, "route_id", r),
                                      r2, i + 1)
         ELSE LET first == RouteOf(rd1, r.route_id)
                  it1 == DictOfList(r.itineraries, "itinerary_id",
                             DictOfList(first.itineraries, "itinerary_id", <<>>))
              IN DeltaMerger_routes_loop(its.dm,
                     DictSet(rd1, "route_id",
                         Route(r.route_id,
                               Or(r.agency_id, first.agency_id, 0),
                               Or(r.short_name, first.short_name, ""),
                               Or(r.long_name, first.long_name, <<>>),
                               r.type,
                               it1,
                               FALSE)),
                     r2, i + 1)

DeltaMerger_routes(dm, r1, r2) ==
    DeltaMerger_routes_loop(dm, DictOfList(r1, "route_id", <<>>), r2, 1)

RECURSIVE DeltaMerger_trips_loop(_, _, _)
DeltaMerger_trips_loop(td1, t2, i) ==
    IF i > Len(t2) THEN td1
    ELSE
      LET t == t2[i]
      IN IF t.trip_id \notin TripIds(td1)
         THEN DeltaMerger_trips_loop(DictSet(td1, "trip_id", t), t2, i + 1)
         ELSE IF t = Trip(t.trip_id, 0, "", 0, <<>>, <<>>, <<>>)
         THEN DeltaMerger_trips_loop(DictSet(td1, "trip_id", t), t2, i + 1)
         ELSE LET first == TripOf(td1, t.trip_id)
                  new_deps == Or(t.departures, t.arrivals, <<>>)
              IN DeltaMerger_trips_loop(
                     DictSet(td1, "trip_id",
                         Trip(t.trip_id,
                              Or(t.service_id, first.service_id, 0),
                              Or(t.short_name, first.short_name, ""),
                              t.wheelchair,
                              IF new_deps # <<>> THEN t.departures
                                                 ELSE first.departures,
                              IF new_deps # <<>> THEN t.arrivals
                                                 ELSE first.arrivals,
                              Or(t.pickup_types, first.pickup_types, <<>>))),
                     t2, i + 1)

DeltaMerger_trips(t1, t2) ==
    DeltaMerger_trips_loop(DictOfList(t1, "trip_id", <<>>), t2, 1)

\* The transfers of t1 overwritten by those of t2 that have the same key.
DeltaMerger_transfers(t1, t2) ==
    LET keyed(l) == [i \in 1..Len(l) |-> [key |-> transfer_key(l[i]), t |-> l[i]]]
        td1 == DictOfList(keyed(t2), "key", DictOfList(keyed(t1), "key", <<>>))
    IN [i \in 1..Len(td1) |-> td1[i].t]

\* dict.update: the keys of d2 are set in d1.
dict_update(d1, d2) == d2 @@ d1

DeltaMerger_fare_links(f1, f2) ==
    FareLinks(dict_update(f1.stop_areas, f2.stop_areas),
              dict_update(f1.stop_zones, f2.stop_zones),
              dict_update(f1.route_networks, f2.route_networks))

----------------------------------------------------------------------------
(* delta_merge(): lines 174-188 read the two deltas, check their versions  *)
(* and copy the second header; lines 197-207 merge the collections; line   *)
(* 208 writes the result.                                                  *)

\* Variant of the header update that leaves the compression flag alone.
delta_merge_header_keep_compressed(d, s) ==
    [d EXCEPT !.header.version = s.header.version,
              !.header.date = s.header.date]

\* Lines 186-188: the first delta takes over the second's version, date and
\* compression flag.
delta_merge_header(d, s) ==
    [d EXCEPT !.header.version = s.header.version,
              !.header.date = s.header.date,
              !.header.compressed = s.header.compressed]

DeltaMergeCheck ==
    /\ pc = "merge"
    /\ IF old_delta.header.version < second.header.old_version
       THEN pc' = "exit" /\ delta' = old_delta
       ELSE IF old_delta.header.old_version >= second.header.old_version
       THEN pc' = "exit" /\ delta' = old_delta
       ELSE /\ pc' = "merging"
            /\ delta' = delta_merge_header(old_delta, second)
    /\ UNCHANGED <<kind, feed1, feed2, feed3, old_delta, second, today, output, io>>

delta_merge_collections(d, s) ==
    LET dm0 == DeltaMerger(d.strings, s.strings)
        ag == DeltaMerger_agencies(dm0, d.agencies, s.agencies)
        st == DeltaMerger_stops(ag.dm, d.stops, s.stops)
        ro == DeltaMerger_routes(st.dm, d.routes, s.routes)
    IN [raised |-> ag.raised,
        delta |-> [header |-> d.header,
                   strings |-> ro.dm.strings,
                   agencies |-> ag.result,
                   calendar |-> DeltaMerger_calendar(d.calendar, s.calendar),
                   shapes |-> DeltaMerger_shapes(d.shapes, s.shapes),
                   stops |-> st.result,
                   routes |-> ro.result,
                   trips |-> DeltaMerger_trips(d.trips, s.trips),
                   transfers |-> DeltaMerger_transfers(d.transfers, s.transfers),
                   networks |-> dict_update(d.networks, s.networks),
                   areas |-> dict_update(d.areas, s.areas),
                   fare_links |-> DeltaMerger_fare_links(d.fare_links,
                                                         s.fare_links)]]

\* The TypeError of line 22 ends the run with nothing merged or written.
DeltaMergeRun ==
    /\ pc = "merging"
    /\ LET m == delta_merge_collections(delta, second)
       IN IF m.raised
          THEN pc' = "raised" /\ UNCHANGED delta
          ELSE pc' = "delta_write" /\ delta' = m.delta
    /\ UNCHANGED <<kind, feed1, feed2, feed3, old_delta, second, today, output, io>>

----------------------------------------------------------------------------
(* Input deltas of delta_merge.  Each delta has its own string table; the  *)
(* first holds the first MaxStr strings of the pool, the second the empty  *)
(* string and the pool's next strings, so that a reference of the second   *)
(* delta has another index in the merged table.  The records of the first  *)
(* delta set their fields to "p" and 1, those of the second to "q" and 2,  *)
(* or leave them at the default.                                           *)

FirstStrings == SubSeq(StringPool, 1, MaxStr)
SecondStrings == <<"">> \o SubSeq(StringPool, MaxStr + 1, 2 * MaxStr - 1)

DeltaInputs(k, strings, txt, n, base_date) ==
    CASE k = "agencies" ->
           ListsById({Agency(0, nm, "", z) : nm \in {"", txt},
                                                z \in Refs(strings)}, "agency_id")
      [] k = "calendar" -> {build_calendar(s, base_date) : s \in ServiceLists}
      [] k = "shapes" ->
           ListsById({Shape(0, l, l) : l \in {<<>>, <<n>>, <<n, n>>}}, "shape_id")
      [] k = "stops" ->
           ListsById({Stop(0, c, nm, d, p, p, ty, FALSE) :
                             c \in {"", txt}, nm \in Refs(strings),
                             d \in {"", txt}, p \in {0, n}, ty \in {0, n}}
                        \union {Stop(0, "", 0, "", 0, 0, 0, TRUE)}, "stop_id")
      [] k = "routes" ->
           LET its == {<<>>} \union
                      {<<RouteItinerary(1, h, sh, sid)>> :
                          h \in Refs(strings), sh \in RefLists(strings),
                          sid \in {0, n}}
           IN ListsById({Route(0, a, sn, ln, ty, it, FALSE) :
                             a \in {0, n}, sn \in {"", txt},
                             ln \in RefLists(strings), ty \in {0, n},
                             it \in its}
                        \union {Route(0, 0, "", <<>>, 0, <<>>, TRUE)}, "route_id")
      [] k = "trips" ->
           ListsById({Trip(0, s, sn, w, d, a, pt) :
                             s \in {0, n}, sn \in {"", txt}, w \in {0, n},
                             d \in {<<>>, <<n>>}, a \in {<<>>, <<n>>},
                             pt \in {<<>>, <<n>>}}, "trip_id")
      [] k = "transfers" ->
           ListsById({Transfer(0, to, 0, 0, 0, 0, ty, del) :
                             to \in {0, 1}, ty \in {0, n}, del \in BOOLEAN},
                        "from_stop")
      [] k = "networks" -> DictsOf({txt})
      [] k = "areas" -> DictsOf({txt})
      [] k = "fare_links" ->
           {FareLinks(a, z, NoDict) : a \in DictsOf({0, n}), z \in DictsOf({n})}

\* The deltas with the given header that populate collection k.
Deltas(k, header, strings, txt, n, base_date) ==
    {[GtfsDelta EXCEPT !.header = header,
                       !.strings = StringCache(strings),
                       !.calendar = build_calendar(<<>>, base_date),
                       ![k] = c] :
        c \in DeltaInputs(k, strings, txt, n, base_date)}

\* The header of a delta: its date follows its version, and deltas of even
\* versions are compressed, those of odd versions are not.
Header(old_version, version) ==
    [old_version |-> old_version, version |-> version,
     date |-> to_int(version), compressed |-> (version % 2 = 0)]

\* Pairs of headers: contiguous, overlapping (the second starts inside the
\* first), with a gap, and a second that starts where the first does.
HeaderCases ==
    {<<Header(1, 2), Header(2, 3)>>, <<Header(1, 3), Header(2, 4)>>,
     <<Header(1, 2), Header(3, 4)>>, <<Header(2, 3), Header(2, 4)>>}

\* delta_merge old new: two deltas that populate one collection.
InitMerge ==
    /\ pc = "merge"
    /\ kind \in Collections
    /\ \E h \in HeaderCases :
          /\ old_delta \in Deltas(kind, h[1], FirstStrings, "p", 1, OldBase)
          /\ second \in Deltas(kind, h[2], SecondStrings, "q", 2, NewBase)
    /\ feed1 = Idle
    /\ feed2 = Idle
    /\ feed3 = Idle
    /\ today = DiffDay
    /\ delta = GtfsDelta
    /\ output = "none"
    /\ io = Idle

NextMerge == DeltaMergeCheck \/ DeltaMergeRun \/ DeltaWrite

SpecMerge == InitMerge /\ [][NextMerge]_vars

----------------------------------------------------------------------------
(* A chain of three feeds: delta() on the first two and on the last two,   *)
(* then delta_merge() on the two deltas.                                   *)

\* delta v1 v2 and delta v2 v3, run on the same day.
DeltaChain ==
    /\ pc = "chain"
    /\ old_delta' = delta_make(feed1, feed2, today)
    /\ second' = delta_make(feed2, feed3, today)
    /\ pc' = "merge"
    /\ UNCHANGED <<kind, feed1, feed2, feed3, delta, today, output, io>>

\* The third feed takes the first feed's content again, keeps the second's,
\* or drops the collection.
InitChain ==
    /\ pc = "chain"
    /\ kind \in Collections
    /\ feed1 \in Feeds(kind, 1, OldStrings, OldBase)
    /\ feed2 \in Feeds(kind, 2, OldStrings, NewBase)
    /\ feed3 \in {[feed2 EXCEPT !.header.version = 3, ![kind] = c] :
                     c \in {feed1[kind], feed2[kind]} \union
                           (IF kind \in Lists THEN {<<>>} ELSE {})}
    /\ today = DiffDay
    /\ delta = GtfsDelta
    /\ old_delta = Idle
    /\ second = Idle
    /\ output = "none"
    /\ io = Idle

NextChain == DeltaChain \/ DeltaMergeCheck \/ DeltaMergeRun \/ DeltaWrite

SpecChain == InitChain /\ [][NextChain]_vars

\* The collections of a document as tables of resolved records.
Tables(doc) ==
    [k \in Lists |-> Resolved(doc, k)] @@
    [networks |-> doc.networks, areas |-> doc.areas,
     fare_links |-> doc.fare_links]

\* Tables t patched with delta d.
Applied(t, d) ==
    [k \in Lists |-> Patched(t[k], Resolved(d, k), IdField(k))] @@
    [networks |-> PatchedDict(t.networks, d.networks, FALSE),
     areas |-> PatchedDict(t.areas, d.areas, FALSE),
     fare_links |-> PatchedFareLinks(t.fare_links, d.fare_links)]

\* C2: the delta that delta_merge writes for diff(S1,S2) and diff(S2,S3)
\* patches S1 into the same collections as the two deltas applied in
\* sequence, and these are the collections of S3.
C2_MergeOfDiffsReproduces ==
    pc = "written" =>
        /\ Applied(Tables(feed1), output) =
               Applied(Applied(Tables(feed1), old_delta), second)
        /\ Applied(Tables(feed1), output) = Tables(feed3)

\* The ids of collection k that both input deltas hold a record of, neither
\* record being a tombstone.
BothSparse(k) ==
    {id \in DOMAIN Resolved(old_delta, k) \cap DOMAIN Resolved(second, k) :
        /\ ~IsTombstone(Resolved(old_delta, k)[id], IdField(k))
        /\ ~IsTombstone(Resolved(second, k)[id], IdField(k))}

\* C8: the delta written by delta_merge holds, for every id of stops,
\* routes, trips and agencies that both input deltas have a non-tombstone
\* record of, the record whose every field is the second delta's value if
\* that is not the default and the first delta's value otherwise.
C8_MergeFieldwise ==
    pc = "written" =>
        \A k \in {"stops", "routes", "trips", "agencies"} :
            \A id \in BothSparse(k) :
                /\ id \in DOMAIN Resolved(output, k)
                /\ LET a == Resolved(old_delta, k)[id]
                       b == Resolved(second, k)[id]
                   IN \A f \in DOMAIN b \ {IdField(k), "delete", "itineraries"} :
                          Resolved(output, k)[id][f] =
                              IF b[f] # Default(f) THEN b[f] ELSE a[f]

\* C9: delta_merge gets past its version checks only if the first delta's
\* version is the second delta's old_version.
C9_MergeOnlyContiguous ==
    pc \in {"merging", "delta_write", "written", "raised"} =>
        old_delta.header.version = second.header.old_version

----------------------------------------------------------------------------
(* The block container (wrapper.py).  Bytes are numbers and a byte string  *)
(* is a sequence of them.  io is the record                                *)
(*   doc:   the GtfsProto written - its header, its GtfsBlocks dict and    *)
(*          payload, the serialized form of each of its collections;       *)
(*   args:  the arguments of write() and of the reader's constructor;      *)
(*   file:  the bytes written;                                             *)
(*   rd:    the GtfsProto that reads the file;                             *)
(*   got:   what _read_block has returned, per block.                      *)

\* Blocks 1..MaxBlock carry data; B_ITINERARIES is the first block number
\* that has no block in the file.
MaxBlock == 4

B_HEADER == 0
B_IDS == 1
B_STRINGS == 2
B_ITINERARIES == MaxBlock + 1

Blocks == 1..(B_ITINERARIES - 1)

\* The blocks read on demand through _read_block.
EntityBlocks == Blocks \ {B_IDS, B_STRINGS}

\* zstandard: a frame starts with its magic number and the size of its
\* content; what is not a whole frame does not decompress (ZstdError, here
\* the byte string <<-1>>).
ZstdError == <<-1>>
Zstd_compress(data) == <<40, Len(data)>> \o data
Zstd_decompress(data) ==
    IF Len(data) >= 2 /\ data[1] = 40 /\ data[2] = Len(data) - 2
    THEN SubSeq(data, 3, Len(data)) ELSE ZstdError

\* struct.pack('<H', n) and struct.unpack('<H', b)[0]
pack_H(n) == <<n % 256, n \div 256>>
unpack_H(b) == b[1] + 256 * b[2]

\* GtfsHeader.SerializeToString / ParseFromString: version, compressed,
\* the list of block sizes, one byte each after their count, and the bytes
\* of original_url.
Header_SerializeToString(h) ==
    <<h.version, IF h.compressed THEN 1 ELSE 0, Len(h.blocks)>>
        \o h.blocks \o h.original_url
Header_ParseFromString(data) ==
    [version |-> data[1], compressed |-> data[2] = 1,
     blocks |-> SubSeq(data, 4, 3 + data[3]),
     original_url |-> SubSeq(data, 4 + data[3], Len(data))]

\* Variant of add that compresses whatever it is given.
GtfsBlocks_add_always_compress(blocks, block, data, is_compressed) ==
    IF data = <<>> THEN blocks ELSE (block :> Zstd_compress(data)) @@ blocks

GtfsBlocks_add(blocks, block, data, is_compressed) ==
    IF data = <<>> THEN blocks
    ELSE (block :> (IF is_compressed THEN data ELSE Zstd_compress(data))) @@ blocks

GtfsBlocks_get(blocks, block, compressed) ==
    IF block \notin DOMAIN blocks THEN <<>>
    ELSE IF compressed THEN blocks[block]
    ELSE Zstd_decompress(blocks[block])

\* Variant of __contains__ that finds no block.
GtfsBlocks_contains_never(blocks, b) == FALSE

GtfsBlocks_contains(blocks, b) == b \in DOMAIN blocks /\ blocks[b] # <<>>

GtfsBlocks_populate_header(blocks, compressed) ==
    [b \in 1..(B_ITINERARIES - 1) |-> Len(GtfsBlocks_get(blocks, b, compressed))]

RECURSIVE Concat(_, _)
\* The byte strings f[b] of the blocks of the ascending list bs, joined.
Concat(f, bs) == IF bs = <<>> THEN <<>> ELSE f[Head(bs)] \o Concat(f, Tail(bs))

\* __iter__: the stored blocks in ascending order, empty ones left out.
GtfsBlocks_iter(blocks) ==
    Concat(blocks, SetToSeq({b \in DOMAIN blocks : blocks[b] # <<>>}))

GtfsBlocks_decompressed(blocks) ==
    Concat([b \in DOMAIN blocks |-> Zstd_decompress(blocks[b])],
           SetToSeq({b \in DOMAIN blocks : blocks[b] # <<>>}))

GtfsProto_write_blocks(header, blocks) ==
    IF header.compressed THEN GtfsBlocks_iter(blocks)
    ELSE GtfsBlocks_decompressed(blocks)

RECURSIVE GtfsProto_store(_, _, _)
\* store_ids() ... store_areas(): every collection is serialized and added.
GtfsProto_store(blocks, payload, bs) ==
    IF bs = <<>> THEN blocks
    ELSE GtfsProto_store(
             GtfsBlocks_add(blocks, Head(bs), payload[Head(bs)], FALSE),
             payload, Tail(bs))

\* write(fileobj, compress) on a document with a version: the document
\* after the call and the bytes written.  compress is "None", TRUE or FALSE.
GtfsProto_write(doc, compress) ==
    LET blocks == GtfsProto_store(doc.blocks, doc.payload, SetToSeq(Blocks))
        compressed == IF compress = "None" THEN doc.header.compressed
                      ELSE compress = "True"
        header == [doc.header EXCEPT
                      !.compressed = compressed,
                      !.blocks = GtfsBlocks_populate_header(blocks, compressed)]
        header_data == Header_SerializeToString(header)
    IN [doc |-> [doc EXCEPT !.header = header, !.blocks = blocks],
        file |-> pack_H(Len(header_data)) \o header_data
                     \o GtfsProto_write_blocks(header, blocks)]

\* fileobj.read(size) at position pos.
read(file, pos, size) ==
    SubSeq(file, pos + 1, IF pos + size > Len(file) THEN Len(file) ELSE pos + size)

RECURSIVE GtfsProto_read_blocks(_, _, _, _, _, _)
\* The loop of _read_blocks from the b-th size on; filepos is the local
\* variable, cur the position of fileobj.
GtfsProto_read_blocks(rd, file, read_now, b, filepos, cur) ==
    IF b >= Len(rd.header.blocks) THEN rd
    ELSE
      LET size == rd.header.blocks[b + 1]
          raw == read(file, cur, size)
          data == IF rd.header.compressed THEN Zstd_decompress(raw) ELSE raw
          at == [rd EXCEPT !.block_pos = (b + 1 :> <<filepos, size>>) @@ @]
      IN IF size = 0
         THEN GtfsProto_read_blocks(rd, file, read_now, b + 1, filepos, cur)
         ELSE GtfsProto_read_blocks(
                  IF b + 1 = B_STRINGS THEN [at EXCEPT !.strings = data]
                  ELSE IF b + 1 = B_IDS THEN [at EXCEPT !.id_store = data]
                  ELSE IF read_now
                  THEN [at EXCEPT !.blocks =
                           GtfsBlocks_add(@, b + 1, raw, rd.header.compressed)]
                  ELSE at,
                  file, read_now, b + 1, filepos + size, cur + size)

\* GtfsProto(fileobj, read_now): __init__ and read(); raised if the file is
\* flagged as a delta.
GtfsProto_read(file, read_now) ==
    LET header_len == unpack_H(read(file, 0, 2))
        header == Header_ParseFromString(read(file, 2, header_len))
        rd == [header |-> header,
               strings |-> <<>>, id_store |-> <<>>,
               blocks |-> << >>,
               block_pos |-> (B_HEADER :> <<2, header_len>>),
               fileobj |-> ~read_now,
               was_compressed |-> header.compressed]
    IN IF header_len >= 32768 THEN [raised |-> TRUE, rd |-> rd]
       ELSE [raised |-> FALSE,
             rd |-> GtfsProto_read_blocks(rd, file, read_now, 0,
                                          2 + header_len, 2 + header_len)]

\* _read_block(block, compressed): the reader after the call and the
\* result, none being TRUE where the method returns None.
GtfsProto_read_block(rd, file, block, compressed) ==
    IF GtfsBlocks_contains(rd.blocks, block)
    THEN [rd |-> rd, none |-> FALSE,
          data |-> GtfsBlocks_get(rd.blocks, block, compressed)]
    ELSE IF ~rd.fileobj \/ block \notin DOMAIN rd.block_pos
    THEN [rd |-> rd, none |-> TRUE, data |-> <<>>]
    ELSE
      LET data == read(file, rd.block_pos[block][1], rd.block_pos[block][2])
          blocks == GtfsBlocks_add(rd.blocks, block, data, rd.was_compressed)
      IN [rd |-> [rd EXCEPT !.blocks = blocks],
          none |-> FALSE,
          data |-> IF compressed THEN GtfsBlocks_get(blocks, block, TRUE)
                   ELSE IF rd.was_compressed THEN Zstd_decompress(data)
                   ELSE data]

RECURSIVE GtfsProto_read_all_loop(_, _, _)
GtfsProto_read_all_loop(rd, file, bs) ==
    IF bs = <<>> THEN rd
    ELSE GtfsProto_read_all_loop(
             IF Head(bs) \notin {B_STRINGS, B_IDS, B_HEADER}
             THEN GtfsProto_read_block(rd, file, Head(bs), TRUE).rd
             ELSE rd,
             file, Tail(bs))

GtfsProto_read_all(rd, file) ==
    IF ~rd.fileobj THEN rd
    ELSE [GtfsProto_read_all_loop(rd, file, SetToSeq(DOMAIN rd.block_pos))
             EXCEPT !.fileobj = FALSE]

\* write(fileobj, compress) raises on a header without a version.
GtfsProtoWrite ==
    /\ pc = "write"
    /\ IF io.doc.header.version = 0
       THEN pc' = "raised" /\ UNCHANGED io
       ELSE LET w == GtfsProto_write(io.doc, io.args.compress)
            IN /\ io' = [io EXCEPT !.doc = w.doc, !.file = w.file]
               /\ pc' = "read"
    /\ UNCHANGED <<kind, feed1, feed2, feed3, delta, old_delta, second, today,
                   output>>

\* GtfsProto(fileobj, read_now) on the file written.
GtfsProtoRead ==
    /\ pc = "read"
    /\ LET r == GtfsProto_read(io.file, io.args.read_now)
       IN IF r.raised
          THEN pc' = "raised" /\ UNCHANGED io
          ELSE pc' = "loaded" /\ io' = [io EXCEPT !.rd = r.rd]
    /\ UNCHANGED <<kind, feed1, feed2, feed3, delta, old_delta, second, today,
                   output>>

\* _read_block(block) for an entity block, as the collection properties
\* call it; each block is asked for once and again after read_all().
GtfsProtoReadBlock ==
    /\ pc = "loaded"
    /\ \E block \in EntityBlocks :
          /\ IF block \in DOMAIN io.got
             THEN io.rd.fileobj # io.got[block].lazy ELSE TRUE
          /\ LET r == GtfsProto_read_block(io.rd, io.file, block, FALSE)
             IN io' = [io EXCEPT
                          !.rd = r.rd,
                          !.got = (block :> [none |-> r.none, data |-> r.data,
                                             lazy |-> io.rd.fileobj]) @@ @]
    /\ UNCHANGED <<pc, kind, feed1, feed2, feed3, delta, old_delta, second,
                   today, output>>

\* read_all()
GtfsProtoReadAll ==
    /\ pc = "loaded"
    /\ io.rd.fileobj
    /\ io' = [io EXCEPT !.rd = GtfsProto_read_all(io.rd, io.file)]
    /\ UNCHANGED <<pc, kind, feed1, feed2, feed3, delta, old_delta, second,
                   today, output>>

\* The byte strings a collection may serialize to: nothing, or one of two
\* payloads of different length.
Payloads == {<<>>, <<7>>, <<7, 8>>}

\* A document built in memory, to be written and read back.
InitBlocks ==
    /\ pc = "write"
    /\ \E version \in {0, 1}, payload \in [Blocks -> Payloads],
          compress \in {"None", "True", "False"}, read_now \in BOOLEAN :
          io = [doc |-> [header |-> [version |-> version, compressed |-> TRUE,
                                     blocks |-> <<>>, original_url |-> <<>>],
                         blocks |-> << >>,
                         payload |-> payload],
                args |-> [compress |-> compress, read_now |-> read_now],
                file |-> <<>>,
                rd |-> Idle,
                got |-> << >>]
    /\ kind = Idle
    /\ feed1 = Idle
    /\ feed2 = Idle
    /\ feed3 = Idle
    /\ today = DiffDay
    /\ delta = GtfsDelta
    /\ old_delta = Idle
    /\ second = Idle
    /\ output = "none"

NextBlocks ==
    GtfsProtoWrite \/ GtfsProtoRead \/ GtfsProtoReadBlock \/ GtfsProtoReadAll

SpecBlocks == InitBlocks /\ [][NextBlocks]_vars

RECURSIVE SumSizes(_, _)
\* The sum of the first n recorded block sizes.
SumSizes(sizes, n) == IF n = 0 THEN 0 ELSE sizes[n] + SumSizes(sizes, n - 1)

\* C3: after write() and read() of the written bytes, with or without
\* compression, lazily or with read_now: the strings and ids blocks were
\* decoded from the payloads written; every entity block that _read_block
\* was asked for came back as the payload written, or as None if the block
\* was not written; the reader knows the position of exactly the blocks
\* written, each at offset 2 + header length + the sizes recorded for the
\* blocks before it, where the file holds the block as it was stored.
C3_BlockFramingRoundTrip ==
    pc = "loaded" =>
        LET payload == io.doc.payload
            rd == io.rd
            hlen == rd.block_pos[B_HEADER][2]
            stored(b) == IF rd.header.compressed
                         THEN Zstd_compress(payload[b]) ELSE payload[b]
        IN /\ rd.strings = payload[B_STRINGS]
           /\ rd.id_store = payload[B_IDS]
           /\ rd.header.compressed = (io.args.compress # "False")
           /\ \A b \in DOMAIN io.got :
                  IF payload[b] = <<>> THEN io.got[b].none
                  ELSE ~io.got[b].none /\ io.got[b].data = payload[b]
           /\ DOMAIN rd.block_pos =
                  {B_HEADER} \union {b \in Blocks : payload[b] # <<>>}
           /\ \A b \in DOMAIN rd.block_pos \ {B_HEADER} :
                  /\ rd.block_pos[b][1] =
                         2 + hlen + SumSizes(rd.header.blocks, b - 1)
                  /\ rd.block_pos[b][2] = rd.header.blocks[b]
                  /\ read(io.file, rd.block_pos[b][1], rd.block_pos[b][2])
                         = stored(b)

\* An uncompressed file was read lazily and an entity block that follows
\* another block in the file came back with its payload.
C3_Witness ==
    /\ pc = "loaded"
    /\ io.args.compress = "False"
    /\ ~io.args.read_now
    /\ \E b \in DOMAIN io.got :
          /\ ~io.got[b].none
          /\ io.got[b].data = io.doc.payload[b]
          /\ io.rd.block_pos[b][1] > 2 + io.rd.block_pos[B_HEADER][2]

----------------------------------------------------------------------------
(* The header of a merged delta. *)

\* C11: the header of a delta written by delta_merge has the second
\* delta's version, date and compression flag and the first delta's
\* old_version; the same holds of the delta in memory from the header
\* update on.
C11_MergedHeader ==
    /\ pc = "written" =>
          /\ output.header.version = second.header.version
          /\ output.header.date = second.header.date
          /\ output.header.compressed = second.header.compressed
          /\ output.header.old_version = old_delta.header.old_version
    /\ pc \in {"merging", "delta_write"} =>
          /\ delta.header.version = second.header.version
          /\ delta.header.date = second.header.date
          /\ delta.header.compressed = second.header.compressed
          /\ delta.header.old_version = old_delta.header.old_version

\* A merged delta was written whose inputs differ in version, date and
\* compression flag and in old_version.
C11_Witness ==
    /\ pc = "written"
    /\ old_delta.header.version # second.header.version
    /\ old_delta.header.date # second.header.date
    /\ old_delta.header.compressed # second.header.compressed
    /\ old_delta.header.old_version # second.header.old_version

----------------------------------------------------------------------------
(* IdReference and FeedCache (base.py), pack() (pack.py).  An IdReference  *)
(* is the record [ids, last_id], ids being a function from identifiers to  *)
(* dense ids.  A packed file is the record of its header and its blocks;   *)
(* the ids block holds the IdStore message, a list of [block, ids].        *)

\* A version chain has at most MaxVersions packed versions.
MaxVersions == 3
\* A packed table has at most MaxRows rows.
MaxRows == 2

Max(S) == CHOOSE x \in S : \A y \in S : y <= x

\* IdReference(source): {s: i for i, s in enumerate(source) if s}; a later
\* index overrides an earlier one.
IdReference(source) ==
    LET named == {i \in 1..Len(source) : source[i] # ""}
        ids == [s \in {source[i] : i \in named} |->
                   Max({i \in named : source[i] = s}) - 1]
    IN [ids |-> ids,
        last_id |-> IF DOMAIN ids = {} THEN 0
                    ELSE Max({ids[s] : s \in DOMAIN ids})]

IdReference_len(r) == Cardinality(DOMAIN r.ids)

\* add(k): the table after the call and the id returned.
IdReference_add(r, k) ==
    IF k \notin DOMAIN r.ids
    THEN [r |-> [ids |-> (k :> r.last_id + 1) @@ r.ids,
                 last_id |-> r.last_id + 1],
          id |-> r.last_id + 1]
    ELSE [r |-> r, id |-> r.ids[k]]

\* to_list(): a list of last_id + 1 strings, '' where no identifier has
\* the index.
IdReference_to_list(r) ==
    [i \in 1..(r.last_id + 1) |->
        IF \E s \in DOMAIN r.ids : r.ids[s] = i - 1
        THEN CHOOSE s \in DOMAIN r.ids : r.ids[s] = i - 1
        ELSE ""]

\* FeedCache(): version 0 and an empty IdReference per block.
FeedCache == [version |-> 0, id_store |-> [b \in Blocks |-> IdReference(<<>>)]]

RECURSIVE FeedCache_load_refs(_, _)
\* for idrefs in store.refs: self.id_store[idrefs.block] = IdReference(idrefs.ids)
FeedCache_load_refs(id_store, refs) ==
    IF refs = <<>> THEN id_store
    ELSE FeedCache_load_refs(
             [id_store EXCEPT ![Head(refs).block] = IdReference(Head(refs).ids)],
             Tail(refs))

NoFile == [header |-> [version |-> 0, compressed |-> FALSE], blocks |-> << >>]

\* load(fileobj): nothing without a file; otherwise the version of the
\* header and the tables of the ids block.
FeedCache_load(store, file) ==
    IF file = NoFile THEN store
    ELSE LET data == IF B_IDS \in DOMAIN file.blocks THEN file.blocks[B_IDS]
                     ELSE <<>>
             refs == IF file.header.compressed /\ data # <<>>
                     THEN Zstd_decompress(data) ELSE data
         IN [version |-> file.header.version,
             id_store |-> FeedCache_load_refs(store.id_store, refs)]

RECURSIVE FeedCache_store_refs(_, _)
\* store(): one IdReference message per block whose table is not empty.
FeedCache_store_refs(id_store, bs) ==
    IF bs = <<>> THEN <<>>
    ELSE (IF IdReference_len(id_store[Head(bs)]) # 0
          THEN <<[block |-> Head(bs),
                  ids |-> IdReference_to_list(id_store[Head(bs)])]>>
          ELSE <<>>) \o FeedCache_store_refs(id_store, Tail(bs))

FeedCache_store(store) == FeedCache_store_refs(store.id_store, SetToSeq(Blocks))

RECURSIVE table_reader(_, _)
\* table_reader: ids.add(row[id_column]) for every row, in file order; the
\* table after the rows and the dense ids handed to the records.
table_reader(ids, rows) ==
    IF rows = <<>> THEN [ids |-> ids, our_ids |-> <<>>]
    ELSE LET a == IdReference_add(ids, Head(rows))
             rest == table_reader(a.r, Tail(rows))
         IN [ids |-> rest.ids, our_ids |-> <<a.id>> \o rest.our_ids]

\* The block packed in the chain: the first entity block.
PackedBlock == B_STRINGS + 1

\* GtfsBlocks.archive_if (pack.py)
GtfsBlocks_archive_if(compress, data) ==
    IF compress THEN Zstd_compress(data) ELSE data

\* pack(): the store is loaded from the previous build, the rows of the
\* input are packed, and a file is written if any block is not empty.
\* The result holds the file (NoFile if none was written) and the store.
pack(prev, rows, raw) ==
    LET loaded == FeedCache_load(FeedCache, prev)
        version == loaded.version + 1
        tr == table_reader(loaded.id_store[PackedBlock], rows)
        store == [loaded EXCEPT !.id_store[PackedBlock] = tr.ids]
        not_empty == tr.our_ids # <<>>
        idstore == FeedCache_store(store)
        blocks == (PackedBlock :> GtfsBlocks_archive_if(~raw, tr.our_ids)) @@
                  (IF idstore = <<>> THEN << >>
                   ELSE (B_IDS :> GtfsBlocks_archive_if(~raw, idstore)))
    IN [written |-> not_empty,
        file |-> IF not_empty
                 THEN [header |-> [version |-> version, compressed |-> ~raw],
                       blocks |-> blocks]
                 ELSE NoFile,
        ids |-> tr.ids, our_ids |-> tr.our_ids]

\* Identifiers of the input rows; a CSV row may have an empty id column.
Identifiers == {"", "x", "y"}

RowLists == UNION {[1..n -> Identifiers] : n \in 0..MaxRows}

\* pack -p prev input: one more version of the chain.  io.chain lists, per
\* version written, its file and the id table it was packed with.
Pack ==
    /\ pc = "pack"
    /\ Len(io.chain) < MaxVersions
    /\ \E rows \in RowLists, raw \in BOOLEAN :
          LET p == pack(io.prev, rows, raw)
          IN IF p.written
             THEN io' = [prev |-> p.file,
                         chain |-> Append(io.chain,
                                          [version |-> p.file.header.version,
                                           ids |-> p.ids.ids,
                                           rows |-> rows,
                                           our_ids |-> p.our_ids])]
             ELSE UNCHANGED io
    /\ UNCHANGED <<pc, kind, feed1, feed2, feed3, delta, old_delta, second,
                   today, output>>

InitPack ==
    /\ pc = "pack"
    /\ io = [prev |-> NoFile, chain |-> <<>>]
    /\ kind = Idle
    /\ feed1 = Idle
    /\ feed2 = Idle
    /\ feed3 = Idle
    /\ today = DiffDay
    /\ delta = GtfsDelta
    /\ old_delta = Idle
    /\ second = Idle
    /\ output = "none"

NextPack == Pack

SpecPack == InitPack /\ [][NextPack]_vars

\* The dense ids issued in the versions before the v-th of the chain.
IssuedBefore(chain, v) ==
    UNION {{chain[u].ids[s] : s \in DOMAIN chain[u].ids} : u \in 1..(v - 1)}

\* C12: along a chain packed with -p, an identifier keeps its dense id in
\* every later version, an identifier first seen in a version gets an id
\* greater than every id issued before, and each version number is its
\* predecessor's plus one.
C12_IdsStableAlongChain ==
    pc = "pack" =>
        \A v \in 1..Len(io.chain) :
            /\ io.chain[v].version = v
            /\ \A u \in 1..(v - 1) : \A s \in DOMAIN io.chain[u].ids :
                   /\ s \in DOMAIN io.chain[v].ids
                   /\ io.chain[v].ids[s] = io.chain[u].ids[s]
            /\ \A s \in DOMAIN io.chain[v].ids :
                   (\A u \in 1..(v - 1) : s \notin DOMAIN io.chain[u].ids)
                       => \A n \in IssuedBefore(io.chain, v) :
                              io.chain[v].ids[s] > n

----------------------------------------------------------------------------
(* An IdReference under a sequence of add calls. *)

\* At most MaxCalls calls of add are made on a table.
MaxCalls == 4

\* ids.add(k) on the table of io; io.calls lists the identifiers added so
\* far, io.last the table before the latest call and the id it returned.
IdAdd ==
    /\ pc = "ids"
    /\ Len(io.calls) < MaxCalls
    /\ \E k \in Identifiers :
          LET a == IdReference_add(io.r, k)
          IN io' = [r |-> a.r, calls |-> Append(io.calls, k),
                    last |-> [before |-> io.r, k |-> k, id |-> a.id]]
    /\ UNCHANGED <<pc, kind, feed1, feed2, feed3, delta, old_delta, second,
                   today, output>>

\* IdReference(): an empty table.
InitIds ==
    /\ pc = "ids"
    /\ io = [r |-> IdReference(<<>>), calls |-> <<>>,
             last |-> [before |-> IdReference(<<>>), k |-> "", id |-> 0]]
    /\ kind = Idle
    /\ feed1 = Idle
    /\ feed2 = Idle
    /\ feed3 = Idle
    /\ today = DiffDay
    /\ delta = GtfsDelta
    /\ old_delta = Idle
    /\ second = Idle
    /\ output = "none"

NextIds == IdAdd

SpecIds == InitIds /\ [][NextIds]_vars

\* The identifiers added so far.
Added == {io.calls[i] : i \in 1..Len(io.calls)}

\* The table maps the identifiers of S one-to-one onto 1..last_id.
BijectionOn(r, S) ==
    /\ S \subseteq DOMAIN r.ids
    /\ {r.ids[s] : s \in S} = 1..r.last_id
    /\ \A s, t \in S : r.ids[s] = r.ids[t] => s = t

\* What the latest add returned and did: the existing id and no change for
\* a known identifier, last_id + 1 for a new one.
LastAddAsDocumented ==
    io.calls # <<>> =>
        IF io.last.k \in DOMAIN io.last.before.ids
        THEN io.last.id = io.last.before.ids[io.last.k] /\ io.r = io.last.before
        ELSE /\ io.last.id = io.last.before.last_id + 1
             /\ io.r.last_id = io.last.before.last_id + 1
             /\ io.r.ids[io.last.k] = io.last.id

\* With the empty identifier counted among the identifiers, the table is
\* a bijection and add behaves as documented.
IdTableBijectionWithEmpty ==
    pc = "ids" =>
        /\ DOMAIN io.r.ids = Added
        /\ BijectionOn(io.r, Added)
        /\ LastAddAsDocumented

\* C13: after any sequence of add calls on an initially empty table, the
\* table is a bijection between the distinct non-empty identifiers added
\* and 1..last_id; add of a known identifier returns its id and changes
\* nothing, add of a new one returns last_id + 1.
C13_IdTableBijection ==
    pc = "ids" => BijectionOn(io.r, Added \ {""}) /\ LastAddAsDocumented

----------------------------------------------------------------------------
(* A StringCache under a sequence of add calls. *)

\* strings.add(s) on the table of io; io.returned lists every string
\* added with the index returned for it, io.before is the table before the
\* latest call.
StringAdd ==
    /\ pc = "strings"
    /\ Len(io.returned) < MaxCalls
    /\ \E s \in {"", "a", "b"} :
          LET a == StringCache_add(io.c, s)
          IN io' = [c |-> a.cache, before |-> io.c,
                    returned |-> Append(io.returned, [s |-> s, id |-> a.id])]
    /\ UNCHANGED <<pc, kind, feed1, feed2, feed3, delta, old_delta, second,
                   today, output>>

\* StringCache() or StringCache(source) with the table of a file.
InitStrings ==
    /\ pc = "strings"
    /\ \E source \in {<<>>, <<"", "a">>} :
          io = [c |-> StringCache(source), before |-> StringCache(source),
                returned |-> <<>>]
    /\ kind = Idle
    /\ feed1 = Idle
    /\ feed2 = Idle
    /\ feed3 = Idle
    /\ today = DiffDay
    /\ delta = GtfsDelta
    /\ old_delta = Idle
    /\ second = Idle
    /\ output = "none"

NextStrings == StringAdd

SpecStrings == InitStrings /\ [][NextStrings]_vars

\* C14: add returns 0 and leaves the table unchanged for an empty string;
\* for a non-empty string already in the table it returns the string's
\* index and leaves the table unchanged; otherwise it appends the string
\* and returns the new last index.  After any sequence of add calls index
\* 0 holds the empty string and every index returned so far holds the
\* string it was returned for.
C14_StringAdd ==
    pc = "strings" =>
        /\ io.returned # <<>> =>
              LET s == Last(io.returned).s
                  id == Last(io.returned).id
                  old == io.before.strings
                  known == {i \in 1..Len(old) : old[i] = s}
              IN IF s = ""
                 THEN id = 0 /\ io.c.strings = old
                 ELSE IF known # {}
                 THEN id + 1 \in known /\ io.c.strings = old
                 ELSE io.c.strings = Append(old, s) /\ id = Len(old)
        /\ io.c.strings[1] = ""
        /\ \A n \in 1..Len(io.returned) :
              io.c.strings[io.returned[n].id + 1] = io.returned[n].s

----------------------------------------------------------------------------
(* The id store of a delta: delta() lines 302-305 and store_ids()          *)
(* (wrapper.py).  IdReference.to_list is the one of base.py; the           *)
(* constructor IdReference(ids, delta_skip) that wrapper.py line 121       *)
(* calls is not in base.py and is taken from the format description: the   *)
(* stored list starts after the first delta_skip ids.                      *)

\* IdReference(source, delta_skip): entry i of the list is the identifier
\* of dense id i + delta_skip.
IdReference_with_skip(source, delta_skip) ==
    LET named == {i \in 1..Len(source) : source[i] # ""}
        ids == [s \in {source[i] : i \in named} |->
                   Max({i \in named : source[i] = s}) - 1 + delta_skip]
    IN [ids |-> ids,
        last_id |-> IF DOMAIN ids = {} THEN 0
                    ELSE Max({ids[s] : s \in DOMAIN ids}),
        delta_skip |-> delta_skip]

\* delta(): delta.id_store = feed2.id_store, and every table takes the old
\* feed's last_id as its delta_skip.
delta_id_store(id_store1, id_store2) ==
    [k \in DOMAIN id_store2 |->
        IF k \in DOMAIN id_store1
        THEN [ids |-> id_store2[k].ids, last_id |-> id_store2[k].last_id,
              delta_skip |-> id_store1[k].last_id]
        ELSE id_store2[k]]

RECURSIVE GtfsProto_store_ids(_, _)
\* store_ids(): one IdReference message per block whose table is not
\* empty, with the table's to_list() and its delta_skip.
GtfsProto_store_ids(id_store, bs) ==
    IF bs = <<>> THEN <<>>
    ELSE (IF IdReference_len(id_store[Head(bs)]) # 0
          THEN <<[block |-> Head(bs),
                  ids |-> IdReference_to_list(id_store[Head(bs)]),
                  delta_skip |-> id_store[Head(bs)].delta_skip]>>
          ELSE <<>>) \o GtfsProto_store_ids(id_store, Tail(bs))

\* The id store of a feed whose table of the packed block is r.
IdStoreOf(r) == [FeedCache.id_store EXCEPT ![PackedBlock] = r]

\* delta old new, as far as the id store goes: io.refs is the IdStore
\* message written into the delta.
DeltaStoreIds ==
    /\ pc = "delta_ids"
    /\ LET id_store == delta_id_store(IdStoreOf(io.old), IdStoreOf(io.new))
       IN io' = [io EXCEPT
                    !.id_store = id_store,
                    !.refs = GtfsProto_store_ids(id_store, SetToSeq(Blocks))]
    /\ pc' = "ids_stored"
    /\ UNCHANGED <<kind, feed1, feed2, feed3, delta, old_delta, second,
                   today, output>>

\* Two feeds of one chain: the new feed's table is the old feed's with the
\* identifiers of the new input added.
InitDeltaIds ==
    /\ pc = "delta_ids"
    /\ \E rows1, rows2 \in RowLists :
          LET old == table_reader(IdReference(<<>>), rows1).ids
              new == table_reader(old, rows2).ids
          IN io = [old |-> old, new |-> new, rows |-> <<rows1, rows2>>,
                   id_store |-> << >>, refs |-> <<>>]
    /\ kind = Idle
    /\ feed1 = Idle
    /\ feed2 = Idle
    /\ feed3 = Idle
    /\ today = DiffDay
    /\ delta = GtfsDelta
    /\ old_delta = Idle
    /\ second = Idle
    /\ output = "none"

NextDeltaIds == DeltaStoreIds

SpecDeltaIds == InitDeltaIds /\ [][NextDeltaIds]_vars

\* C15: in a serialized delta the id list of each namespace omits the
\* identifiers of the first delta_skip dense ids, delta_skip is the old
\* feed's highest issued id of the namespace, and reading the list back
\* with that delta_skip gives the new feed's mapping for the ids above
\* delta_skip.
C15_DeltaIdListSkipsInherited ==
    pc = "ids_stored" =>
        \A n \in 1..Len(io.refs) :
            LET ref == io.refs[n]
                new == io.id_store[ref.block]
                back == IdReference_with_skip(ref.ids, ref.delta_skip)
                above(r) == {s \in DOMAIN r.ids : r.ids[s] > ref.delta_skip}
            IN /\ ref.block = PackedBlock
               /\ ref.delta_skip = io.old.last_id
               /\ \A s \in DOMAIN new.ids :
                      (s # "" /\ new.ids[s] <= ref.delta_skip)
                          => \A i \in 1..Len(ref.ids) : ref.ids[i] # s
               /\ above(back) = above(new)
               /\ \A s \in above(new) : back.ids[s] = new.ids[s]

----------------------------------------------------------------------------
(* The flag bit of the length prefix (wrapper.py): GtfsProto.write and     *)
(* GtfsDelta.write, is_gtfs_delta, and either class reading either file.   *)
(* io is the record                                                        *)
(*   class:  the class whose write() made the file;                        *)
(*   doc, args, file, rd: as for the block container;                      *)
(*   header_data: the serialized header that write() wrote;                *)
(*   pos:    the position of the file object opened on the file;           *)
(*   is_delta: what is_gtfs_delta returned;                                *)
(*   reader: the class whose read() was called on the file.                *)

\* n & 0x8000 > 0, n | 0x8000, n & 0x7FFF
Bit15(n) == (n \div 32768) % 2 = 1
Or8000(n) == IF Bit15(n) THEN n ELSE n + 32768
And7FFF(n) == n % 32768

\* GtfsDeltaHeader.SerializeToString / ParseFromString: old_version,
\* version, compressed and the list of block sizes after their count; a
\* field that the data does not hold has its default value.
DeltaHeader_SerializeToString(h) ==
    <<h.old_version, h.version, IF h.compressed THEN 1 ELSE 0, Len(h.blocks)>>
        \o h.blocks
DeltaHeader_ParseFromString(data) ==
    LET field(i) == IF i <= Len(data) THEN data[i] ELSE 0
        last == IF 4 + field(4) > Len(data) THEN Len(data) ELSE 4 + field(4)
    IN [old_version |-> field(1), version |-> field(2),
        compressed |-> field(3) = 1,
        blocks |-> SubSeq(data, 5, last)]

\* is_gtfs_delta(fileobj): the answer and the position it leaves.
is_gtfs_delta(file) ==
    [result |-> Bit15(unpack_H(read(file, 0, 2))), pos |-> 0]

\* GtfsDelta.write(fileobj, compress) on a header with both versions.
GtfsDelta_write(doc, compress) ==
    LET blocks == GtfsProto_store(doc.blocks, doc.payload, SetToSeq(Blocks))
        compressed == IF compress = "None" THEN doc.header.compressed
                      ELSE compress = "True"
        header == [doc.header EXCEPT
                      !.compressed = compressed,
                      !.blocks = GtfsBlocks_populate_header(blocks, compressed)]
        header_data == DeltaHeader_SerializeToString(header)
    IN [doc |-> [doc EXCEPT !.header = header, !.blocks = blocks],
        file |-> pack_H(Or8000(Len(header_data))) \o header_data
                     \o GtfsProto_write_blocks(header, blocks)]

\* GtfsDelta(fileobj, read_now): __init__ and read(); raised if the file is
\* not flagged as a delta.
GtfsDelta_read(file, read_now) ==
    LET prefix == unpack_H(read(file, 0, 2))
        header_len == And7FFF(prefix)
        header == DeltaHeader_ParseFromString(read(file, 2, header_len))
        rd == [header |-> header,
               strings |-> <<>>, id_store |-> <<>>,
               blocks |-> << >>,
               block_pos |-> (B_HEADER :> <<2, header_len>>),
               fileobj |-> ~read_now,
               was_compressed |-> header.compressed]
    IN IF ~Bit15(prefix) THEN [raised |-> TRUE, rd |-> Idle]
       ELSE [raised |-> FALSE,
             rd |-> GtfsProto_read_blocks(rd, file, read_now, 0,
                                          2 + header_len, 2 + header_len)]

\* write() of the document's class; it raises on a missing version.
DocWrite ==
    /\ pc = "write"
    /\ IF io.class = "GtfsProto"
       THEN IF io.doc.header.version = 0
            THEN pc' = "write_raised" /\ UNCHANGED io
            ELSE LET w == GtfsProto_write(io.doc, io.args.compress)
                 IN /\ io' = [io EXCEPT
                                 !.doc = w.doc, !.file = w.file,
                                 !.header_data =
                                     Header_SerializeToString(w.doc.header)]
                    /\ pc' = "probe"
       ELSE IF io.doc.header.old_version = 0 \/ io.doc.header.version = 0
            THEN pc' = "write_raised" /\ UNCHANGED io
            ELSE LET w == GtfsDelta_write(io.doc, io.args.compress)
                 IN /\ io' = [io EXCEPT
                                 !.doc = w.doc, !.file = w.file,
                                 !.header_data =
                                     DeltaHeader_SerializeToString(w.doc.header)]
                    /\ pc' = "probe"
    /\ UNCHANGED <<kind, feed1, feed2, feed3, delta, old_delta, second, today,
                   output>>

\* is_gtfs_delta on the file, opened at its start.
IsGtfsDelta ==
    /\ pc = "probe"
    /\ LET r == is_gtfs_delta(io.file)
       IN io' = [io EXCEPT !.is_delta = r.result, !.pos = r.pos]
    /\ pc' = "read"
    /\ UNCHANGED <<kind, feed1, feed2, feed3, delta, old_delta, second, today,
                   output>>

\* GtfsProto(fileobj) or GtfsDelta(fileobj) on the file.
DocRead ==
    /\ pc = "read"
    /\ \E reader \in {"GtfsProto", "GtfsDelta"} :
          LET r == IF reader = "GtfsProto"
                   THEN GtfsProto_read(io.file, io.args.read_now)
                   ELSE GtfsDelta_read(io.file, io.args.read_now)
          IN IF r.raised
             THEN pc' = "raised" /\ io' = [io EXCEPT !.reader = reader]
             ELSE pc' = "loaded"
                  /\ io' = [io EXCEPT !.reader = reader, !.rd = r.rd]
    /\ UNCHANGED <<kind, feed1, feed2, feed3, delta, old_delta, second, today,
                   output>>

\* The values of --url: none, a short one, and one that makes the header
\* of a feed 32768 bytes long.
Urls == {<<>>, <<1>>, [i \in 1..(32768 - 3 - (B_ITINERARIES - 1)) |-> 0]}

\* Either only the strings block has content or every block has.
FlagPayloads == {[b \in Blocks |-> IF only /\ b # B_STRINGS THEN <<>> ELSE p] :
                    only \in BOOLEAN, p \in Payloads}

\* A feed or a delta built in memory, to be written and then read.
InitFlag ==
    /\ pc = "write"
    /\ \E class \in {"GtfsProto", "GtfsDelta"}, version \in {0, 1},
          url \in Urls, payload \in FlagPayloads,
          compress \in {"None", "True", "False"}, read_now \in BOOLEAN :
          io = [class |-> class,
                doc |-> [header |->
                             IF class = "GtfsProto"
                             THEN [version |-> version, compressed |-> TRUE,
                                   blocks |-> <<>>, original_url |-> url]
                             ELSE [old_version |-> Len(url), version |-> version,
                                   compressed |-> TRUE, blocks |-> <<>>],
                         blocks |-> << >>,
                         payload |-> payload],
                args |-> [compress |-> compress, read_now |-> read_now],
                file |-> <<>>,
                header_data |-> <<>>,
                pos |-> 0,
                is_delta |-> "none",
                reader |-> "none",
                rd |-> Idle]
    /\ kind = Idle
    /\ feed1 = Idle
    /\ feed2 = Idle
    /\ feed3 = Idle
    /\ today = DiffDay
    /\ delta = GtfsDelta
    /\ old_delta = Idle
    /\ second = Idle
    /\ output = "none"

NextFlag == DocWrite \/ IsGtfsDelta \/ DocRead

SpecFlag == InitFlag /\ [][NextFlag]_vars

\* Whatever wrote the file, either read() raises exactly on the flag bit it
\* does not expect, and is_gtfs_delta reports that bit and leaves the file
\* at its start.
FlagBitDecides ==
    pc \in {"raised", "loaded"} =>
        LET prefix == unpack_H(read(io.file, 0, 2))
        IN /\ io.is_delta = Bit15(prefix)
           /\ io.pos = 0
           /\ (pc = "raised") = (IF io.reader = "GtfsProto"
                                 THEN Bit15(prefix) ELSE ~Bit15(prefix))

\* C16: a file written by GtfsDelta.write is rejected by GtfsProto.read and
\* a file written by GtfsProto.write is rejected by GtfsDelta.read;
\* is_gtfs_delta answers by bit 15 of the prefix, which is set exactly in
\* the files that GtfsDelta.write wrote, and leaves the file position where
\* it was; the header written is as long as the prefix with bit 15 cleared
\* says.
C16_FlagBitSeparatesKinds ==
    /\ pc \in {"raised", "loaded"} /\ io.reader # io.class => pc = "raised"
    /\ pc \in {"read", "raised", "loaded"} =>
          LET prefix == unpack_H(read(io.file, 0, 2))
          IN /\ io.is_delta = Bit15(prefix)
             /\ io.is_delta = (io.class = "GtfsDelta")
             /\ io.pos = 0
             /\ Len(io.header_data) = And7FFF(prefix)
----------------------------------------------------------------------------
(* Reading a file that ends before its last entity block does              *)
(* (wrapper.py).  io is the record of the block container, file being the  *)
(* bytes that write() made without their last io.cut bytes.                *)

\* The most bytes that the file may lack.
MaxCut == 3

\* The blocks of the reader rd whose recorded end lies beyond the file.
Truncated(rd, file) ==
    {b \in DOMAIN rd.block_pos \ {B_HEADER} :
        rd.block_pos[b][1] + rd.block_pos[b][2] > Len(file)}

\* A file written by write() that lost up to MaxCut bytes of its entity
\* blocks, and a reader to be constructed on it.
InitTruncated ==
    /\ pc = "read"
    /\ \E payload \in [Blocks -> Payloads], compress \in {"True", "False"},
          read_now \in BOOLEAN, n \in 1..MaxCut :
          LET doc == [header |-> [version |-> 1, compressed |-> TRUE,
                                  blocks |-> <<>>, original_url |-> <<>>],
                      blocks |-> << >>,
                      payload |-> payload]
              w == GtfsProto_write(doc, compress)
              entities == SumSizes(w.doc.header.blocks, B_ITINERARIES - 1)
                              - SumSizes(w.doc.header.blocks, B_STRINGS)
          IN /\ n <= entities
             /\ io = [doc |-> w.doc,
                      args |-> [compress |-> compress, read_now |-> read_now],
                      file |-> SubSeq(w.file, 1, Len(w.file) - n),
                      cut |-> n,
                      rd |-> Idle,
                      got |-> << >>]
    /\ kind = Idle
    /\ feed1 = Idle
    /\ feed2 = Idle
    /\ feed3 = Idle
    /\ today = DiffDay
    /\ delta = GtfsDelta
    /\ old_delta = Idle
    /\ second = Idle
    /\ output = "none"

NextTruncated == GtfsProtoRead \/ GtfsProtoReadBlock \/ GtfsProtoReadAll

SpecTruncated == InitTruncated /\ [][NextTruncated]_vars

\* C17: a reader constructed with read_now on a file that ends before one
\* of its blocks does is not constructed; one constructed lazily gets an
\* error from the first _read_block of such a block; and no _read_block
\* returns anything for a block but an error or the payload written.
C17_TruncatedBlockRaises ==
    pc = "loaded" =>
        /\ io.args.read_now => Truncated(io.rd, io.file) = {}
        /\ \A b \in DOMAIN io.got :
              /\ b \in Truncated(io.rd, io.file) => io.got[b].data = ZstdError
              /\ ~io.got[b].none =>
                     io.got[b].data \in {io.doc.payload[b], ZstdError}
----------------------------------------------------------------------------
(* build_calendar, parse_calendar and CalendarService.operates (util.py)   *)
(* on their own.  io is the record                                         *)
(*   services:  the list given to build_calendar;                          *)
(*   base_date: its base date;                                             *)
(*   c:         the gtfs.Calendar built;                                   *)
(*   parsed:    the list that parse_calendar returned;                     *)
(*   on:        the date asked of operates();                              *)
(*   operates:  the answers of the parsed services.                        *)

\* CalendarService.operates(on); 1 January 2024 is a Monday.
operates(self, on) ==
    IF self.start_date # 0 /\ on < self.start_date THEN FALSE
    ELSE IF self.end_date # 0 /\ on > self.end_date THEN FALSE
    ELSE IF \E i \in 1..Len(self.removed_days) : self.removed_days[i] = on
    THEN FALSE
    ELSE IF \E i \in 1..Len(self.added_days) : self.added_days[i] = on
    THEN TRUE
    ELSE self.weekdays[((on - 1) % 7) + 1]

BuildCalendar ==
    /\ pc = "calendar"
    /\ io' = [io EXCEPT !.c = build_calendar(io.services, io.base_date)]
    /\ pc' = "built"
    /\ UNCHANGED <<kind, feed1, feed2, feed3, delta, old_delta, second, today,
                   output>>

ParseCalendar ==
    /\ pc = "built"
    /\ io' = [io EXCEPT !.parsed = parse_calendar(io.c)]
    /\ pc' = "decoded"
    /\ UNCHANGED <<kind, feed1, feed2, feed3, delta, old_delta, second, today,
                   output>>

\* The dates that operates() is asked about.
OnDates == 1..7

Operates ==
    /\ pc = "decoded"
    /\ \E on \in OnDates :
          io' = [io EXCEPT
                    !.on = on,
                    !.operates = [i \in 1..Len(io.parsed) |->
                                     operates(io.parsed[i], on)]]
    /\ pc' = "operated"
    /\ UNCHANGED <<kind, feed1, feed2, feed3, delta, old_delta, second, today,
                   output>>

BaseDates == {3, 4}

\* Lists of exception dates: none, one, unsorted, with dates on both sides
\* of the base date, with a date twice, and only before the base date.
DateLists == {<<>>, <<5>>, <<6, 5>>, <<6, 2, 5>>, <<5, 5>>, <<2>>}

MondayOnly == [i \in 1..7 |-> i = 1]

\* One service of any shape, or two that differ in their exception dates.
CalendarInputs ==
    {<<CalendarService(1, s, e, w, a, r)>> :
        s \in {0, 2, 5}, e \in {0, 2, 3, 4, 6},
        w \in {NoWeekdays, AllWeekdays, MondayOnly},
        a \in DateLists, r \in DateLists}
    \union
    {<<CalendarService(1, 0, 6, AllWeekdays, a1, r1),
       CalendarService(2, 0, 2, MondayOnly, a2, r2)>> :
        a1 \in DateLists, r1 \in {<<>>, <<5>>},
        a2 \in DateLists, r2 \in {<<>>, <<6, 5>>}}

InitCalendar ==
    /\ pc = "calendar"
    /\ \E services \in CalendarInputs, base_date \in BaseDates :
          io = [services |-> services, base_date |-> base_date,
                c |-> Idle, parsed |-> Idle, on |-> 0, operates |-> <<>>]
    /\ kind = Idle
    /\ feed1 = Idle
    /\ feed2 = Idle
    /\ feed3 = Idle
    /\ today = DiffDay
    /\ delta = GtfsDelta
    /\ old_delta = Idle
    /\ second = Idle
    /\ output = "none"

NextCalendar == BuildCalendar \/ ParseCalendar \/ Operates

SpecCalendar == InitCalendar /\ [][NextCalendar]_vars

\* The set of the elements of a list.
Range(s) == {s[i] : i \in 1..Len(s)}

\* The round trip keeps, for every service, the service id, the weekdays
\* and the sets of added and of removed dates, the latter two restricted to
\* the dates in the set `kept`.
RoundTripKeeps(kept) ==
    /\ Len(io.parsed) = Len(io.services)
    /\ \A i \in 1..Len(io.services) :
          /\ io.parsed[i].service_id = io.services[i].service_id
          /\ io.parsed[i].weekdays = io.services[i].weekdays
          /\ Range(io.parsed[i].added_days)
                 = Range(io.services[i].added_days) \intersect kept
          /\ Range(io.parsed[i].removed_days)
                 = Range(io.services[i].removed_days) \intersect kept

\* C18, as stated: parse_calendar of build_calendar gives every service
\* its service id, its weekdays and sets of added and removed dates equal
\* to the original ones.
C18_CalendarRoundTrip ==
    pc \in {"decoded", "operated"} =>
        RoundTripKeeps(1..31)

\* C18, amended: parse_calendar of build_calendar gives every service its
\* service id, its weekdays and the sets of its added and removed dates
\* that are later than the base date.
C18_CalendarRoundTripAfterBase ==
    pc \in {"decoded", "operated"} =>
        RoundTripKeeps({d \in 1..31 : d > io.base_date})

\* Two services were decoded, the first with unsorted added dates on both
\* sides of the base date and a removed date that is also an added one,
\* the second with no removed dates.
C18_Witness ==
    /\ pc = "decoded"
    /\ Len(io.services) = 2
    /\ io.services[1].added_days = <<6, 2, 5>>
    /\ io.services[1].removed_days = <<5>>
    /\ io.parsed[1].added_days = <<5, 6>>
    /\ io.parsed[1].removed_days = <<5>>
    /\ io.services[2].removed_days = <<>>
    /\ io.parsed[2].removed_days = <<>>

\* C19: a service with an end date that is not later than the base date
\* operates, once built and parsed, on no date after the base date.
C19_EndedServiceNeverOperates ==
    pc = "operated" =>
        \A i \in 1..Len(io.services) :
            (/\ io.services[i].end_date # 0
             /\ io.services[i].end_date <= io.base_date
             /\ io.on > io.base_date) => ~io.operates[i]
----------------------------------------------------------------------------
(* build_shape and parse_shape (util.py).  A coordinate is a whole number  *)
(* of millionths of a degree, a point the pair <<longitude, latitude>>.    *)
(* io is the record                                                        *)
(*   coords:  the points given to build_shape;                             *)
(*   up:      whether round() takes a product that lies halfway between    *)
(*            two integers in floating point to the upper one;             *)
(*   shape:   the gtfs.Shape built;                                        *)
(*   parsed:  the points that parse_shape returned.                        *)

SHAPE_SCALE == 100000

\* The millionths in a degree.
Micro == 10 * SHAPE_SCALE

\* round(c * SHAPE_SCALE) for the coordinate c of n millionths.
round(n, up) ==
    LET q == (n * SHAPE_SCALE) \div Micro
        r == (n * SHAPE_SCALE) % Micro
    IN IF 2 * r < Micro THEN q
       ELSE IF 2 * r > Micro THEN q + 1
       ELSE IF up THEN q + 1 ELSE q

\* Variant of build_shape that stores the scaled points, not their
\* differences.
build_shape_absolute(shape_id, coords, up) ==
    IF Len(coords) < 2 THEN [raised |-> TRUE, shape |-> Idle]
    ELSE [raised |-> FALSE,
          shape |-> [shape_id |-> shape_id,
                     longitudes |-> [i \in 1..Len(coords) |->
                                        round(coords[i][1], up)],
                     latitudes |-> [i \in 1..Len(coords) |->
                                       round(coords[i][2], up)]]]

build_shape(shape_id, coords, up) ==
    LET new_coord(i) == <<round(coords[i][1], up), round(coords[i][2], up)>>
        last_coord(i) == IF i = 1 THEN <<0, 0>> ELSE new_coord(i - 1)
    IN IF Len(coords) < 2 THEN [raised |-> TRUE, shape |-> Idle]
       ELSE [raised |-> FALSE,
             shape |-> [shape_id |-> shape_id,
                        longitudes |-> [i \in 1..Len(coords) |->
                                           new_coord(i)[1] - last_coord(i)[1]],
                        latitudes |-> [i \in 1..Len(coords) |->
                                          new_coord(i)[2] - last_coord(i)[2]]]]

\* parse_shape: the running sums divided by SHAPE_SCALE, in millionths.
parse_shape(shape) ==
    [i \in 1..Len(shape.longitudes) |->
        <<(SumSizes(shape.longitudes, i) * Micro) \div SHAPE_SCALE,
          (SumSizes(shape.latitudes, i) * Micro) \div SHAPE_SCALE>>]

BuildShape ==
    /\ pc = "shape"
    /\ LET r == build_shape(1, io.coords, io.up)
       IN IF r.raised
          THEN pc' = "shape_raised" /\ UNCHANGED io
          ELSE pc' = "shape_built" /\ io' = [io EXCEPT !.shape = r.shape]
    /\ UNCHANGED <<kind, feed1, feed2, feed3, delta, old_delta, second, today,
                   output>>

ParseShape ==
    /\ pc = "shape_built"
    /\ io' = [io EXCEPT !.parsed = parse_shape(io.shape)]
    /\ pc' = "shape_decoded"
    /\ UNCHANGED <<kind, feed1, feed2, feed3, delta, old_delta, second, today,
                   output>>

\* The most points of a shape.
MaxPoints == 3

\* Coordinates in millionths of a degree, two of them halfway between
\* two hundred-thousandths.
Coordinates == {-15, -4, 5, 26}

InitShapes ==
    /\ pc = "shape"
    /\ \E n \in 0..MaxPoints, up \in BOOLEAN :
          \E coords \in [1..n -> Coordinates \X Coordinates] :
              io = [coords |-> coords, up |-> up, shape |-> Idle,
                    parsed |-> <<>>]
    /\ kind = Idle
    /\ feed1 = Idle
    /\ feed2 = Idle
    /\ feed3 = Idle
    /\ today = DiffDay
    /\ delta = GtfsDelta
    /\ old_delta = Idle
    /\ second = Idle
    /\ output = "none"

NextShapes == BuildShape \/ ParseShape

SpecShapes == InitShapes /\ [][NextShapes]_vars

Abs(n) == IF n < 0 THEN -n ELSE n

\* C20: build_shape raises exactly for fewer than 2 points; for a shape
\* built, the running sums of the stored differences are the rounded
\* scaled points, and parse_shape returns as many points as were given,
\* each less than a hundred-thousandth of a degree from the given one in
\* either coordinate.
C20_ShapeRoundTrip ==
    /\ pc = "shape_raised" => Len(io.coords) < 2
    /\ pc \in {"shape_built", "shape_decoded"} => Len(io.coords) >= 2
    /\ pc \in {"shape_built", "shape_decoded"} =>
          /\ Len(io.shape.longitudes) = Len(io.coords)
          /\ Len(io.shape.latitudes) = Len(io.coords)
          /\ \A i \in 1..Len(io.coords) :
                /\ SumSizes(io.shape.longitudes, i) = round(io.coords[i][1], io.up)
                /\ SumSizes(io.shape.latitudes, i) = round(io.coords[i][2], io.up)
    /\ pc = "shape_decoded" =>
          /\ Len(io.parsed) = Len(io.coords)
          /\ \A i \in 1..Len(io.coords) :
                /\ Abs(io.parsed[i][1] - io.coords[i][1]) * SHAPE_SCALE < Micro
                /\ Abs(io.parsed[i][2] - io.coords[i][2]) * SHAPE_SCALE < Micro

\* A shape of three points was decoded whose longitudes go down and up
\* again and hold a halfway value that was not stored as given.
C20_Witness ==
    /\ pc = "shape_decoded"
    /\ Len(io.coords) = 3
    /\ io.shape.longitudes[2] < 0
    /\ io.shape.longitudes[3] > 0
    /\ io.coords[3][1] = 5
    /\ io.parsed[3][1] # io.coords[3][1]
----------------------------------------------------------------------------
(* RoutesPacker.read_itineraries (packers/routes.py).  A row of trips.txt  *)
(* is the record of its columns, its trip_id being the dense id that       *)
(* table_reader gave it; a route_id is its bytes.  io is the record        *)
(*   rows:        the rows of trips.txt in file order;                     *)
(*   trip_stops:  the stop ids of every trip, empty for a trip without     *)
(*                stop times;                                              *)
(*   ids:         the IdReference of B_ITINERARIES;                        *)
(*   strings:     the StringCache;                                         *)
(*   result, trip_itineraries: what read_itineraries returned.             *)

\* s.to_bytes(4)
to_bytes(s) ==
    <<s \div 16777216, (s \div 65536) % 256, (s \div 256) % 256, s % 256>>

RECURSIVE stops_bytes(_)
\* The bytes that the loop of Trip.__init__ feeds to md5 after the route id.
stops_bytes(stops) ==
    IF stops = <<>> THEN <<>>
    ELSE to_bytes(Head(stops)) \o stops_bytes(Tail(stops))

\* The ids of shapes.txt, packed before the routes.
ShapeIdStore == [ids |-> ("s" :> 1), last_id |-> 1]

\* Trip(trip_id, row, stops, shape_id); the digest is the bytes digested,
\* and route_id is the key of the trips dict that holds the Trip.
RoutesPacker_Trip(trip_id, row, stops, shape_id) ==
    [trip_id |-> trip_id,
     headsign |-> row.trip_headsign,
     opposite |-> row.direction_id = "1",
     stops |-> stops,
     shape_id |-> shape_id,
     route_id |-> row.route_id,
     stops_key |-> row.route_id \o stops_bytes(stops)]

\* The first loop: the trips that have stops, in file order.
read_itineraries_trips(rows, trip_stops) ==
    LET has_stops(row) == trip_stops[row.trip_id] # <<>>
        kept == SelectSeq(rows, has_stops)
    IN [i \in 1..Len(kept) |->
           RoutesPacker_Trip(
               kept[i].trip_id, kept[i], trip_stops[kept[i].trip_id],
               IF kept[i].shape_id = "" THEN 0
               ELSE ShapeIdStore.ids[kept[i].shape_id])]

\* Variant of set() that keeps the last of equal elements.
set_keep_last(trips, route_id) ==
    {i \in 1..Len(trips) :
        /\ trips[i].route_id = route_id
        /\ \A j \in (i + 1)..Len(trips) : trips[j].stops_key # trips[i].stops_key}

\* set(trip_list) for the trips of a route: the positions of the trips
\* that the set holds; of equal trips a set keeps the one added first.
set(trips, route_id) ==
    {i \in 1..Len(trips) :
        /\ trips[i].route_id = route_id
        /\ \A j \in 1..(i - 1) : trips[j].stops_key # trips[i].stops_key}

Reverse(s) == [i \in 1..Len(s) |-> s[Len(s) + 1 - i]]

\* The trips that the two nested loops visit: routes in the order of their
\* first trip, and the set of a route in ascending or descending order.
read_itineraries_order(trips, descending) ==
    LET first == {i \in 1..Len(trips) :
                     \A j \in 1..(i - 1) : trips[j].route_id # trips[i].route_id}
        of_route == [i \in first |->
                        LET s == SetToSeq(set(trips, trips[i].route_id))
                            o == IF descending THEN Reverse(s) ELSE s
                        IN [n \in 1..Len(o) |-> trips[o[n]]]]
    IN Concat(of_route, SetToSeq(first))

RECURSIVE read_itineraries_loop(_, _, _, _, _, _)
read_itineraries_loop(work, trips, ids, strings, result, trip_itineraries) ==
    IF work = <<>>
    THEN [result |-> result, trip_itineraries |-> trip_itineraries,
          ids |-> ids, strings |-> strings]
    ELSE
      LET trip == Head(work)
          a == IdReference_add(ids, trip.stops_key)
          h == IF trip.headsign # "" THEN StringCache_add(strings, trip.headsign)
               ELSE [cache |-> strings, id |-> 0]
          itin == [itinerary_id |-> a.id,
                   opposite_direction |-> trip.opposite,
                   stops |-> trip.stops,
                   shape_id |-> trip.shape_id,
                   headsign |-> h.id]
          same == {trips[i].trip_id : i \in
                      {i \in 1..Len(trips) :
                          /\ trips[i].route_id = trip.route_id
                          /\ trips[i].stops_key = trip.stops_key}}
      IN read_itineraries_loop(
             Tail(work), trips, a.r, h.cache,
             [result EXCEPT ![trip.route_id] = Append(@, itin)],
             [t \in DOMAIN trip_itineraries \union same |->
                 IF t \in same THEN a.id ELSE trip_itineraries[t]])

read_itineraries(rows, trip_stops, ids, strings, descending) ==
    LET trips == read_itineraries_trips(rows, trip_stops)
    IN read_itineraries_loop(
           read_itineraries_order(trips, descending), trips, ids, strings,
           [r \in {trips[i].route_id : i \in 1..Len(trips)} |-> <<>>], << >>)

ReadItineraries ==
    /\ pc = "trips"
    /\ \E descending \in BOOLEAN :
          LET r == read_itineraries(io.rows, io.trip_stops, io.ids, io.strings,
                                    descending)
          IN io' = [io EXCEPT !.result = r.result,
                              !.trip_itineraries = r.trip_itineraries,
                              !.ids = r.ids, !.strings = r.strings]
    /\ pc' = "itineraries"
    /\ UNCHANGED <<kind, feed1, feed2, feed3, delta, old_delta, second, today,
                   output>>

\* The most rows of trips.txt.
MaxTrips == 3

\* The columns of a trips.txt row other than trip_id and route_id.
TripColumns ==
    {[trip_headsign |-> "a", direction_id |-> "0", shape_id |-> ""],
     [trip_headsign |-> "b", direction_id |-> "1", shape_id |-> "s"],
     [trip_headsign |-> "", direction_id |-> "", shape_id |-> "s"]}

TripRouteIds == {<<65>>, <<66>>}

StopSequences == {<<>>, <<1>>, <<1, 2>>, <<2, 1>>}

\* trips.txt and the stop times of its trips, and an itinerary id table
\* that is new or was loaded from the previous build.
InitItineraries ==
    /\ pc = "trips"
    /\ \E n \in 1..MaxTrips :
          \E route \in [1..n -> TripRouteIds], columns \in [1..n -> TripColumns],
             trip_stops \in [1..n -> StopSequences], loaded \in BOOLEAN :
              io = [rows |-> [i \in 1..n |->
                                 [trip_id |-> i, route_id |-> route[i],
                                  trip_headsign |-> columns[i].trip_headsign,
                                  direction_id |-> columns[i].direction_id,
                                  shape_id |-> columns[i].shape_id]],
                    trip_stops |-> trip_stops,
                    ids |-> IF loaded
                            THEN [ids |-> ((<<65>> \o stops_bytes(<<1, 2>>)) :> 1),
                                  last_id |-> 1]
                            ELSE [ids |-> << >>, last_id |-> 0],
                    strings |-> StringCache(<<>>),
                    result |-> << >>,
                    trip_itineraries |-> << >>]
    /\ kind = Idle
    /\ feed1 = Idle
    /\ feed2 = Idle
    /\ feed3 = Idle
    /\ today = DiffDay
    /\ delta = GtfsDelta
    /\ old_delta = Idle
    /\ second = Idle
    /\ output = "none"

NextItineraries == ReadItineraries

SpecItineraries == InitItineraries /\ [][NextItineraries]_vars

\* The rows of the route that have stop times.
RowsWithStops(route_id) ==
    {i \in 1..Len(io.rows) :
        io.rows[i].route_id = route_id /\ io.trip_stops[i] # <<>>}

----------------------------------------------------------------------------
(* Coordinates chained across records (wrapper.py): store_stops and        *)
(* store_shapes as write() calls them, and the stops and shapes            *)
(* properties of a reader of the bytes written.  A serialized block is the *)
(* list of its records.  io is the record                                  *)
(*   stops, shapes:  the lists held by the GtfsProto in memory;            *)
(*   before:         the two lists as they were before the first write;    *)
(*   files:          the stops and shapes blocks of every write so far;    *)
(*   decoded:        the stops and shapes that a reader of the first file  *)
(*                   returned.                                             *)

\* sorted(records, key=lambda k: k.<idf>) for records with distinct ids.
SortedById(records, idf) ==
    LET ids == SetToSeq({records[i][idf] : i \in 1..Len(records)})
    IN [n \in 1..Len(ids) |->
           records[CHOOSE i \in 1..Len(records) : records[i][idf] = ids[n]]]

\* The list with every record replaced by the record of `changed` that
\* has its id: the objects of the list are the ones that the loop changed.
InPlace(records, changed, idf) ==
    [i \in 1..Len(records) |->
        changed[CHOOSE n \in 1..Len(changed) :
                    changed[n][idf] = records[i][idf]]]

RECURSIVE GtfsProto_store_stops_loop(_, _)
GtfsProto_store_stops_loop(sorted, prev_coord) ==
    IF sorted = <<>> THEN <<>>
    ELSE LET s == Head(sorted)
         IN IF s.lon # 0 /\ s.lat # 0
            THEN <<[s EXCEPT !.lon = @ - prev_coord[1],
                             !.lat = @ - prev_coord[2]]>>
                 \o GtfsProto_store_stops_loop(Tail(sorted), <<s.lon, s.lat>>)
            ELSE <<s>> \o GtfsProto_store_stops_loop(Tail(sorted), prev_coord)

\* store_stops() with stops in __dict__: the block added and the list in
\* memory after the call.
GtfsProto_store_stops(stops) ==
    LET block == GtfsProto_store_stops_loop(SortedById(stops, "stop_id"),
                                            <<0, 0>>)
    IN [block |-> block, stops |-> InPlace(stops, block, "stop_id")]

RECURSIVE GtfsProto_stops_loop(_, _)
GtfsProto_stops_loop(stops, prev_coord) ==
    IF stops = <<>> THEN <<>>
    ELSE LET s == Head(stops)
             d == [s EXCEPT !.lon = @ + prev_coord[1],
                            !.lat = @ + prev_coord[2]]
         IN IF s.lon # 0 /\ s.lat # 0
            THEN <<d>> \o GtfsProto_stops_loop(Tail(stops), <<d.lon, d.lat>>)
            ELSE <<s>> \o GtfsProto_stops_loop(Tail(stops), prev_coord)

\* The stops property of a reader whose stops block is `block`.
GtfsProto_stops(block) == GtfsProto_stops_loop(block, <<0, 0>>)

\* _get_shape_last(shape, prev_last)
GtfsProto_get_shape_last(shape, prev_last) ==
    <<SumSizes(shape.longitudes, Len(shape.longitudes)) + prev_last[1],
      SumSizes(shape.latitudes, Len(shape.latitudes)) + prev_last[2]>>

RECURSIVE GtfsProto_store_shapes_loop(_, _)
GtfsProto_store_shapes_loop(sorted, prev_last) ==
    IF sorted = <<>> THEN <<>>
    ELSE LET s == Head(sorted)
             d == [s EXCEPT !.longitudes[1] = @ - prev_last[1],
                            !.latitudes[1] = @ - prev_last[2]]
         IN IF s.longitudes # <<>>
            THEN <<d>> \o GtfsProto_store_shapes_loop(
                              Tail(sorted),
                              GtfsProto_get_shape_last(d, prev_last))
            ELSE <<s>> \o GtfsProto_store_shapes_loop(Tail(sorted), prev_last)

\* store_shapes() with shapes in __dict__.
GtfsProto_store_shapes(shapes) ==
    LET block == GtfsProto_store_shapes_loop(SortedById(shapes, "shape_id"),
                                             <<0, 0>>)
    IN [block |-> block, shapes |-> InPlace(shapes, block, "shape_id")]

RECURSIVE GtfsProto_shapes_loop(_, _)
GtfsProto_shapes_loop(shapes, prev_last) ==
    IF shapes = <<>> THEN <<>>
    ELSE LET s == Head(shapes)
             d == [s EXCEPT !.longitudes[1] = @ + prev_last[1],
                            !.latitudes[1] = @ + prev_last[2]]
         IN IF s.longitudes # <<>>
            THEN <<d>> \o GtfsProto_shapes_loop(
                              Tail(shapes),
                              GtfsProto_get_shape_last(d, <<0, 0>>))
            ELSE <<s>> \o GtfsProto_shapes_loop(Tail(shapes), prev_last)

\* The shapes property of a reader whose shapes block is `block`.
GtfsProto_shapes(block) == GtfsProto_shapes_loop(block, <<0, 0>>)

\* The most calls of write().
MaxWrites == 2

\* write(): store_shapes() and store_stops() on the lists in memory.
CoordsWrite ==
    /\ pc = "coords"
    /\ Len(io.files) < MaxWrites
    /\ LET st == GtfsProto_store_stops(io.stops)
           sh == GtfsProto_store_shapes(io.shapes)
       IN io' = [io EXCEPT
                    !.stops = st.stops, !.shapes = sh.shapes,
                    !.files = Append(@, [stops |-> st.block,
                                         shapes |-> sh.block])]
    /\ UNCHANGED <<pc, kind, feed1, feed2, feed3, delta, old_delta, second,
                   today, output>>

\* A reader of the first file written decodes its stops and shapes.
CoordsRead ==
    /\ pc = "coords"
    /\ io.files # <<>>
    /\ io' = [io EXCEPT
                 !.decoded = [stops |-> GtfsProto_stops(io.files[1].stops),
                              shapes |-> GtfsProto_shapes(io.files[1].shapes)]]
    /\ pc' = "coords_read"
    /\ UNCHANGED <<kind, feed1, feed2, feed3, delta, old_delta, second, today,
                   output>>

\* The orders in which records with the ids 1 and 2 may be listed.
IdOrders == {<<>>, <<1>>, <<2>>, <<1, 2>>, <<2, 1>>}

\* Scaled coordinates of a stop, <<0, 0>> for a stop without any; two of
\* them share the longitude, two the latitude.
StopCoords == {<<0, 0>>, <<10, 20>>, <<10, 30>>, <<15, 20>>}

\* The longitudes and latitudes of a shape as build_shape stores them.
ShapeCoords == {<< <<>>, <<>> >>, << <<10, 1>>, <<20, 2>> >>,
                << <<11, 0>>, <<20, -1>> >>}

InitCoords ==
    /\ pc = "coords"
    /\ \E so \in IdOrders, ho \in IdOrders :
          \E sc \in [1..Len(so) -> StopCoords], hc \in [1..Len(ho) -> ShapeCoords] :
              LET stops == [i \in 1..Len(so) |->
                               [stop_id |-> so[i], lon |-> sc[i][1],
                                lat |-> sc[i][2]]]
                  shapes == [i \in 1..Len(ho) |->
                                [shape_id |-> ho[i], longitudes |-> hc[i][1],
                                 latitudes |-> hc[i][2]]]
              IN io = [stops |-> stops, shapes |-> shapes,
                       before |-> [stops |-> stops, shapes |-> shapes],
                       files |-> <<>>,
                       decoded |-> [stops |-> <<>>, shapes |-> <<>>]]
    /\ kind = Idle
    /\ feed1 = Idle
    /\ feed2 = Idle
    /\ feed3 = Idle
    /\ today = DiffDay
    /\ delta = GtfsDelta
    /\ old_delta = Idle
    /\ second = Idle
    /\ output = "none"

NextCoords == CoordsWrite \/ CoordsRead

SpecCoords == InitCoords /\ [][NextCoords]_vars

\* The records of the list as a set.
RecordSet(records) == {records[i] : i \in 1..Len(records)}

\* The shapes decoded have the first points of the shapes written.
ShapesRoundTrip ==
    pc = "coords_read" =>
        RecordSet(io.decoded.shapes) = RecordSet(io.before.shapes)

\* C22: the stops that a reader decodes from the bytes of the first write
\* are the stops that were in memory before it, with their absolute
\* coordinates, and likewise the shapes with their absolute first points.
C22_CoordinateChainingRoundTrip ==
    pc = "coords_read" =>
        /\ RecordSet(io.decoded.stops) = RecordSet(io.before.stops)
        /\ RecordSet(io.decoded.shapes) = RecordSet(io.before.shapes)

\* C28: a write leaves the stops and shapes in memory as they were, and a
\* second write makes the same blocks as the first.
C28_WriteLeavesCollections ==
    pc = "coords" /\ io.files # <<>> =>
        /\ io.stops = io.before.stops
        /\ io.shapes = io.before.shapes
        /\ \A n \in 1..Len(io.files) : io.files[n] = io.files[1]
----------------------------------------------------------------------------
(* The id tables in delta_merge (dmerge.py).  io is the record             *)
(*   first, second:  the id_store of the two deltas read, a function from  *)
(*                   namespaces to IdReference records;                    *)
(*   merged:         the id_store of the first delta after the loop, which *)
(*                   is the one written.                                   *)

\* range(a, b)
range(a, b) == a..(b - 1)

\* The dict from dense ids to identifiers of an IdReference; base.py has it
\* as reversed(), dmerge.py reads it as the property `original`.
IdReference_original(r) ==
    [i \in {r.ids[s] : s \in DOMAIN r.ids} |->
        CHOOSE s \in DOMAIN r.ids : r.ids[s] = i]

\* The loop over delta.id_store.items() of delta_merge.
delta_merge_id_store(id_store, second_id_store) ==
    [k \in DOMAIN id_store |->
        IF k \notin DOMAIN second_id_store THEN id_store[k]
        ELSE
          LET v == id_store[k]
              original == IdReference_original(second_id_store[k])
              appended == range(v.last_id + 1, v.last_id + 1)
              ids == [s \in DOMAIN v.ids \union {original[i] : i \in appended} |->
                         IF \E i \in appended : original[i] = s
                         THEN CHOOSE i \in appended : original[i] = s
                         ELSE v.ids[s]]
          IN [v EXCEPT !.ids = ids,
                       !.last_id = IF DOMAIN ids = {} THEN 0
                                   ELSE Max({ids[s] : s \in DOMAIN ids})]]

DeltaMergeIds ==
    /\ pc = "merge_ids"
    /\ io' = [io EXCEPT !.merged = delta_merge_id_store(io.first, io.second)]
    /\ pc' = "ids_merged"
    /\ UNCHANGED <<kind, feed1, feed2, feed3, delta, old_delta, second, today,
                   output>>

\* The identifier that has the dense id i in a namespace.
IdNames == <<"a", "b", "c">>

\* The IdReference of a delta that holds the ids above delta_skip up to
\* last_id; the constructor leaves last_id at 0 when there is none.
DeltaIds(delta_skip, last_id) ==
    [ids |-> [s \in {IdNames[i] : i \in (delta_skip + 1)..last_id} |->
                 CHOOSE i \in 1..Len(IdNames) : IdNames[i] = s],
     last_id |-> IF delta_skip = last_id THEN 0 ELSE last_id,
     delta_skip |-> delta_skip]

\* The namespaces of which the deltas hold ids.
Namespaces == {B_IDS + 2, B_IDS + 3}

\* Two deltas in a row: per namespace, the first holds the ids issued
\* between its two feeds, the second those issued after them.
InitMergeIds ==
    /\ pc = "merge_ids"
    /\ \E skip \in [Namespaces -> 0..1], n1 \in [Namespaces -> 0..2],
          n2 \in [Namespaces -> 0..Len(IdNames)] :
          /\ \A k \in Namespaces : skip[k] <= n1[k] /\ n1[k] <= n2[k]
          /\ io = [first |-> [k \in Namespaces |-> DeltaIds(skip[k], n1[k])],
                   second |-> [k \in Namespaces |-> DeltaIds(n1[k], n2[k])],
                   merged |-> << >>]
    /\ kind = Idle
    /\ feed1 = Idle
    /\ feed2 = Idle
    /\ feed3 = Idle
    /\ today = DiffDay
    /\ delta = GtfsDelta
    /\ old_delta = Idle
    /\ second = Idle
    /\ output = "none"

NextMergeIds == DeltaMergeIds

SpecMergeIds == InitMergeIds /\ [][NextMergeIds]_vars

\* The merged table of every namespace holds every mapping of the first
\* delta, and gives no identifier of either delta another id.
MergedIdsKeepFirst ==
    pc = "ids_merged" =>
        \A k \in Namespaces :
            /\ \A s \in DOMAIN io.first[k].ids :
                  s \in DOMAIN io.merged[k].ids
                  /\ io.merged[k].ids[s] = io.first[k].ids[s]
            /\ \A s \in DOMAIN io.second[k].ids \intersect DOMAIN io.merged[k].ids :
                  io.merged[k].ids[s] = io.second[k].ids[s]

\* C23: after the merge the id table of every namespace holds every
\* mapping of the first delta and every mapping of the second delta for an
\* id above the first delta's highest id, and maps no id of either delta to
\* another identifier.
C23_MergedIdTables ==
    pc = "ids_merged" =>
        \A k \in Namespaces :
            /\ \A s \in DOMAIN io.first[k].ids :
                  s \in DOMAIN io.merged[k].ids
                  /\ io.merged[k].ids[s] = io.first[k].ids[s]
            /\ \A s \in DOMAIN io.second[k].ids :
                  io.second[k].ids[s] > io.first[k].last_id =>
                      s \in DOMAIN io.merged[k].ids
                      /\ io.merged[k].ids[s] = io.second[k].ids[s]
            /\ \A s, t \in DOMAIN io.merged[k].ids :
                  io.merged[k].ids[s] = io.merged[k].ids[t] => s = t
----------------------------------------------------------------------------
(* DeltaMaker.routes on a route whose itineraries come in any order        *)
(* (delta.py 150-204, 128-148).  Both feeds hold the route 1; its          *)
(* itineraries are up to two of the itineraries 1 and 2, listed in either  *)
(* order.  io is [r1, r2, strings, result].                                *)

ItineraryIdOrders == {<<>>, <<1>>, <<2>>, <<1, 2>>, <<2, 1>>}

\* The itinerary lists over a string table: every order of ids, every
\* headsign of the table, with or without a shape.
OrderedItineraryLists(strings) ==
    UNION {
        {[i \in 1..Len(o) |-> RouteItinerary(o[i], h[i], <<>>, sid[i])] :
            h \in [1..Len(o) -> Refs(strings)],
            sid \in [1..Len(o) -> {0, 1}]} :
        o \in ItineraryIdOrders}

RouteOrderLists(strings) ==
    {<<Route(1, a, "", <<>>, 0, it, FALSE)>> :
        a \in {0, 1}, it \in OrderedItineraryLists(strings)}

InitRouteOrder ==
    /\ pc = "routes"
    /\ io \in {[r1 |-> r1, r2 |-> r2, strings |-> Idle, result |-> Idle] :
                  r1 \in RouteOrderLists(OldStrings),
                  r2 \in RouteOrderLists(NewStrings)}
    /\ kind = Idle /\ feed1 = Idle /\ feed2 = Idle /\ feed3 = Idle
    /\ today = DiffDay /\ delta = GtfsDelta /\ old_delta = Idle
    /\ second = Idle /\ output = "none"

\* dm.routes(feed1.routes, feed2.routes)
DiffRoutes ==
    /\ pc = "routes"
    /\ LET dm == DeltaMaker(StringCache(OldStrings), StringCache(NewStrings),
                            GtfsDelta.strings)
           ro == DeltaMaker_routes(dm, io.r1, io.r2)
       IN io' = [io EXCEPT !.strings = ro.dm.strings, !.result = ro.result]
    /\ pc' = "routes_diffed"
    /\ UNCHANGED <<kind, feed1, feed2, feed3, delta, old_delta, second, today, output>>

NextRouteOrder == DiffRoutes

SpecRouteOrder == InitRouteOrder /\ [][NextRouteOrder]_vars

\* The itineraries of route 1 in a list of routes over a string table, as
\* a table from itinerary id to the itinerary with its texts resolved.
ItinerariesOfRoute(strings, routes) ==
    ResolvedItineraries(strings, routes[1].itineraries)

\* The records the diff emitted for route 1.
EmittedForRoute == SelectSeq(io.result, LAMBDA r : r.route_id = 1)

\* The itineraries the old and the new route differ in: those added or
\* changed, in full, and the removed ones by id alone.
ItineraryChanges(old, new) ==
    {new[k] : k \in {j \in DOMAIN new : j \notin DOMAIN old \/ old[j] # new[j]}}
    \union {RouteItinerary(k, "", <<>>, 0) : k \in DOMAIN old \ DOMAIN new}

SameRouteFields(o, v) == [o EXCEPT !.itineraries = <<>>] = [v EXCEPT !.itineraries = <<>>]

\* C24: for a route in both snapshots with equal non-itinerary fields, no
\* record is emitted when the itineraries are equal as a set keyed by id
\* (in whatever order they are listed); when an itinerary was added,
\* removed or changed, the one emitted record lists exactly the added and
\* changed itineraries in full and each removed itinerary by id alone.
C24_RouteItineraryDiff ==
    (pc = "routes_diffed" /\ SameRouteFields(io.r1[1], io.r2[1])) =>
        LET old == ItinerariesOfRoute(StringCache(OldStrings), io.r1)
            new == ItinerariesOfRoute(StringCache(NewStrings), io.r2)
        IN IF old = new
           THEN EmittedForRoute = <<>>
           ELSE /\ Len(EmittedForRoute) = 1
                /\ LET l == EmittedForRoute[1].itineraries
                       out == ResolvedItineraries(io.strings, l)
                   IN /\ {out[k] : k \in DOMAIN out} = ItineraryChanges(old, new)
                      /\ Len(l) = Cardinality(DOMAIN out)

\* Two itineraries listed in opposite orders and otherwise equal: nothing
\* was emitted for the route.
C24_Witness ==
    /\ pc = "routes_diffed"
    /\ SameRouteFields(io.r1[1], io.r2[1])
    /\ Len(io.r1[1].itineraries) = 2
    /\ io.r1[1].itineraries # io.r2[1].itineraries
    /\ ItinerariesOfRoute(StringCache(OldStrings), io.r1)
           = ItinerariesOfRoute(StringCache(NewStrings), io.r2)
    /\ io.result = <<>>
----------------------------------------------------------------------------
(* CalendarService.equals with a cutoff, and the calendar diff that uses   *)
(* it (util.py 33-59, delta.py 56-75).  Two versions of service 1 with the *)
(* same weekdays are compared with the cutoff of the day before `today`,   *)
(* then packed into the calendars of an old and a new feed and diffed.     *)
(* io is [s1, s2, equal, emitted].                                         *)

\* Dates on both sides of the cutoff (day 7) and of the feeds' base dates.
ServiceVersions ==
    {CalendarService(1, s, e, w, a, r) :
        s \in {0, 5, 6, 9}, e \in {0, 5, 6, 10}, w \in {AllWeekdays},
        a \in {<<>>, <<5>>, <<9>>, <<5, 9>>}, r \in {<<>>, <<10>>}}

InitCalendarDiff ==
    /\ pc = "services"
    /\ io \in {[s1 |-> s1, s2 |-> s2, equal |-> Idle, emitted |-> Idle] :
                  s1 \in ServiceVersions, s2 \in ServiceVersions}
    /\ kind = Idle /\ feed1 = Idle /\ feed2 = Idle /\ feed3 = Idle
    /\ today = DiffDay /\ delta = GtfsDelta /\ old_delta = Idle
    /\ second = Idle /\ output = "none"

\* s1.equals(s2, today - 1)
CompareServices ==
    /\ pc = "services"
    /\ io' = [io EXCEPT !.equal = CalendarService_equals(io.s1, io.s2, today - 1)]
    /\ pc' = "compared"
    /\ UNCHANGED <<kind, feed1, feed2, feed3, delta, old_delta, second, today, output>>

\* dm.calendar(c1, c2) for the calendars holding the two versions.
DiffCalendar ==
    /\ pc = "compared"
    /\ LET c1 == build_calendar(<<io.s1>>, OldBase)
           c2 == build_calendar(<<io.s2>>, NewBase)
           d == DeltaMaker_calendar(c1, c2, today)
       IN io' = [io EXCEPT !.emitted = d.services # <<>>]
    /\ pc' = "calendar_diffed"
    /\ UNCHANGED <<kind, feed1, feed2, feed3, delta, old_delta, second, today, output>>

NextCalendarDiff == CompareServices \/ DiffCalendar

SpecCalendarDiff == InitCalendarDiff /\ [][NextCalendarDiff]_vars

\* What a service says about the days after the cutoff: a start date on or
\* before the cutoff, like an absent one, is a start in the past; an end
\* date on or before the cutoff is an end in the past (-1), an absent one no
\* end; of the exception dates those after the cutoff.
AfterCutoff(s, cutoff) ==
    [start_date |-> IF s.start_date <= cutoff THEN 0 ELSE s.start_date,
     end_date |-> IF s.end_date = 0 THEN 0
                  ELSE IF s.end_date <= cutoff THEN -1 ELSE s.end_date,
     added_days |-> {s.added_days[i] : i \in {j \in 1..Len(s.added_days) :
                                                 s.added_days[j] > cutoff}},
     removed_days |-> {s.removed_days[i] : i \in {j \in 1..Len(s.removed_days) :
                                                     s.removed_days[j] > cutoff}}]

\* equals tells apart what differs after the cutoff, and besides that an
\* absent start date from a present one.
EqualsComparesCapped ==
    pc = "compared" =>
        (io.equal <=>
            /\ AfterCutoff(io.s1, today - 1) = AfterCutoff(io.s2, today - 1)
            /\ (io.s1.start_date = 0 <=> io.s2.start_date = 0))

\* C25: two versions of a service with the same id and weekdays compare
\* equal under equals with a cutoff exactly when they do not differ on a day
\* after the cutoff, an absent start date counting as a start in the past;
\* the diff emits the new version exactly when they differ after the cutoff.
C25_CalendarDiffIgnoresPast ==
    LET same == AfterCutoff(io.s1, today - 1) = AfterCutoff(io.s2, today - 1)
    IN /\ pc = "compared" => (io.equal <=> same)
       /\ pc = "calendar_diffed" => (io.emitted <=> ~same)
----------------------------------------------------------------------------
(* The pool of exception-date lists that build_calendar fills (util.py     *)
(* 91-143), over the calendars of SpecCalendar.                            *)

\* The exception dates of a list that lie after the base date, ascending.
DatesAfter(dates, base_date) ==
    LET after(d) == d > base_date
    IN SelectSeq(SortInts(dates), after)

\* The exception lists given to build_calendar, each with the pool index
\* the built service refers to.
PoolReferences ==
    {[dates |-> io.services[n].added_days, id |-> io.c.services[n].added_days] :
        n \in 1..Len(io.services)}
    \union
    {[dates |-> io.services[n].removed_days, id |-> io.c.services[n].removed_days] :
        n \in 1..Len(io.services)}

\* C26: in a calendar built by build_calendar, pool entry 0 is the empty
\* list, no two pool entries are equal, every added_days and removed_days
\* of a service is an index of the pool, exception dates none of which lies
\* after the base date are stored as index 0, and exception dates that are
\* equal after the base date are stored as the same index.
C26_ExceptionPool ==
    pc \in {"built", "decoded", "operated"} =>
        LET pool == io.c.dates
        IN /\ Len(pool) >= 1 /\ pool[1] = <<>>
           /\ \A i, j \in 1..Len(pool) : pool[i] = pool[j] => i = j
           /\ \A p \in PoolReferences :
                 /\ p.id \in 0..(Len(pool) - 1)
                 /\ DatesAfter(p.dates, io.base_date) = <<>> => p.id = 0
           /\ \A p, q \in PoolReferences :
                 DatesAfter(p.dates, io.base_date) = DatesAfter(q.dates, io.base_date)
                     => p.id = q.id

\* Two services given different lists that agree after the base date share
\* a pool entry other than entry 0, and a list of past dates refers to
\* entry 0.
C26_Witness ==
    /\ pc = "built"
    /\ Len(io.services) = 2
    /\ io.services[1].added_days # io.services[2].added_days
    /\ io.c.services[1].added_days = io.c.services[2].added_days
    /\ io.c.services[1].added_days # 0
    /\ io.services[2].removed_days # <<>>
    /\ Len(io.c.dates) >= 3
----------------------------------------------------------------------------
(* A document opened lazily, its collections and write() (wrapper.py       *)
(* 74-225).  A collection stands for the bytes it serializes to, the empty *)
(* collection for the empty byte string.  io is the record                 *)
(*   src:    the payload of every block of the file that is opened;        *)
(*   file:   the bytes of that file;                                       *)
(*   rd:     the GtfsProto opened on it without read_now;                  *)
(*   cached: the collections held in the document's __dict__, per block -  *)
(*           those a property access has decoded or the caller assigned;   *)
(*   reads:  per block, how often its bytes were read from the file;       *)
(*   ops:    the number of calls made on the document;                     *)
(*   last:   the last call - its name, its block, whether the collection   *)
(*           was in __dict__ before, whether the file was read, the        *)
(*           collection that was in __dict__ and the one returned;         *)
(*   out:    the header and the bytes of the last write().                 *)

MaxOps == 4

\* Line 198-201 of _read_block: the call goes to the file.
ReadsFile(rd, block) ==
    /\ ~GtfsBlocks_contains(rd.blocks, block)
    /\ rd.fileobj
    /\ block \in DOMAIN rd.block_pos

\* The cached_property of a collection, on first access: the parsed block,
\* or the empty collection if _read_block returned nothing.
GtfsProto_collection(rd, file, block) ==
    LET r == GtfsProto_read_block(rd, file, block, FALSE)
    IN [rd |-> r.rd, value |-> IF r.none THEN <<>> ELSE r.data]

\* store_agencies() ... store_areas() for one block: a collection in
\* __dict__ is serialized and added, any other block is fetched from the
\* file if the document still has one.
GtfsProto_store_collection(rd, cached, file, block) ==
    IF block \in DOMAIN cached
    THEN [rd EXCEPT !.blocks = GtfsBlocks_add(@, block, cached[block], FALSE)]
    ELSE IF rd.fileobj
    THEN GtfsProto_read_block(rd, file, block, TRUE).rd
    ELSE rd

RECURSIVE GtfsProto_store_collections(_, _, _, _)
GtfsProto_store_collections(rd, cached, file, bs) ==
    IF bs = <<>> THEN rd
    ELSE GtfsProto_store_collections(
             GtfsProto_store_collection(rd, cached, file, Head(bs)),
             cached, file, Tail(bs))

\* write(fileobj, compress) on a document that was read from a file.
GtfsProto_write_loaded(rd, cached, file, compress) ==
    LET ids == GtfsBlocks_add(rd.blocks, B_IDS, rd.id_store, FALSE)
        strings == GtfsBlocks_add(ids, B_STRINGS, rd.strings, FALSE)
        st == GtfsProto_store_collections([rd EXCEPT !.blocks = strings],
                                          cached, file, SetToSeq(EntityBlocks))
        compressed == IF compress = "None" THEN rd.header.compressed
                      ELSE compress = "True"
        header == [st.header EXCEPT
                      !.compressed = compressed,
                      !.blocks = GtfsBlocks_populate_header(st.blocks, compressed)]
        header_data == Header_SerializeToString(header)
    IN [rd |-> [st EXCEPT !.header = header],
        header |-> header,
        file |-> pack_H(Len(header_data)) \o header_data
                     \o GtfsProto_write_blocks(header, st.blocks)]

NoCall == [op |-> "none", block |-> 0, again |-> FALSE, touched |-> FALSE,
           memo |-> <<>>, result |-> <<>>]

\* GtfsProto(fileobj)
LazyOpen ==
    /\ pc = "lazy"
    /\ io' = [io EXCEPT !.rd = GtfsProto_read(io.file, FALSE).rd]
    /\ pc' = "opened"
    /\ UNCHANGED <<kind, feed1, feed2, feed3, delta, old_delta, second, today, output>>

\* doc.agencies, doc.routes, ...: the cached_property returns what is in
\* __dict__, and runs the getter only if nothing is.
LazyAccess ==
    /\ pc = "opened"
    /\ io.ops < MaxOps
    /\ \E block \in EntityBlocks :
          IF block \in DOMAIN io.cached
          THEN io' = [io EXCEPT
                         !.ops = @ + 1,
                         !.last = [op |-> "access", block |-> block,
                                   again |-> TRUE, touched |-> FALSE,
                                   memo |-> io.cached[block],
                                   result |-> io.cached[block]]]
          ELSE LET c == GtfsProto_collection(io.rd, io.file, block)
                   touched == ReadsFile(io.rd, block)
               IN io' = [io EXCEPT
                            !.rd = c.rd,
                            !.cached = (block :> c.value) @@ @,
                            !.reads[block] = @ + (IF touched THEN 1 ELSE 0),
                            !.ops = @ + 1,
                            !.last = [op |-> "access", block |-> block,
                                      again |-> FALSE, touched |-> touched,
                                      memo |-> <<>>, result |-> c.value]]
    /\ UNCHANGED <<pc, kind, feed1, feed2, feed3, delta, old_delta, second, today, output>>

\* The collections a caller may leave in place of another: the empty one
\* and one that no file holds.
NewPayloads == {<<>>, <<9>>}

\* doc.agencies = [...], or a change made to the list that an access
\* returned: either way __dict__ holds the new collection.
LazyModify ==
    /\ pc = "opened"
    /\ io.ops < MaxOps
    /\ \E block \in EntityBlocks, p \in NewPayloads :
          io' = [io EXCEPT !.cached = (block :> p) @@ @,
                           !.ops = @ + 1,
                           !.last = [NoCall EXCEPT !.op = "modify",
                                                   !.block = block]]
    /\ UNCHANGED <<pc, kind, feed1, feed2, feed3, delta, old_delta, second, today, output>>

\* doc.write(fileobj, compress)
LazyWrite ==
    /\ pc = "opened"
    /\ io.ops < MaxOps
    /\ \E compress \in {"None", "False"} :
          LET w == GtfsProto_write_loaded(io.rd, io.cached, io.file, compress)
              fetched == {b \in EntityBlocks \ DOMAIN io.cached :
                             ReadsFile(io.rd, b)}
          IN io' = [io EXCEPT
                       !.rd = w.rd,
                       !.reads = [b \in EntityBlocks |->
                                     @[b] + (IF b \in fetched THEN 1 ELSE 0)],
                       !.ops = @ + 1,
                       !.last = [NoCall EXCEPT !.op = "write",
                                               !.touched = fetched # {}],
                       !.out = [header |-> w.header, file |-> w.file]]
    /\ UNCHANGED <<pc, kind, feed1, feed2, feed3, delta, old_delta, second, today, output>>

\* doc.read_all()
LazyReadAll ==
    /\ pc = "opened"
    /\ io.ops < MaxOps
    /\ io.rd.fileobj
    /\ LET fetched == {b \in EntityBlocks : ReadsFile(io.rd, b)}
       IN io' = [io EXCEPT
                    !.rd = GtfsProto_read_all(io.rd, io.file),
                    !.reads = [b \in EntityBlocks |->
                                  @[b] + (IF b \in fetched THEN 1 ELSE 0)],
                    !.ops = @ + 1,
                    !.last = [NoCall EXCEPT !.op = "read_all",
                                            !.touched = fetched # {}]]
    /\ UNCHANGED <<pc, kind, feed1, feed2, feed3, delta, old_delta, second, today, output>>

\* The files: written by write() from a document with a string table, with
\* or without ids and entity blocks, compressed or not.
InitLazy ==
    /\ pc = "lazy"
    /\ \E src \in [Blocks -> Payloads], compress \in {"None", "False"} :
          /\ src[B_STRINGS] = <<7>>
          /\ src[B_IDS] # <<7, 8>>
          /\ io = [src |-> src,
                   file |-> GtfsProto_write(
                                [header |-> [version |-> 1, compressed |-> TRUE,
                                             blocks |-> <<>>,
                                             original_url |-> <<>>],
                                 blocks |-> << >>,
                                 payload |-> src], compress).file,
                   rd |-> Idle,
                   cached |-> << >>,
                   reads |-> [b \in EntityBlocks |-> 0],
                   ops |-> 0,
                   last |-> NoCall,
                   out |-> [header |-> Idle, file |-> <<>>]]
    /\ kind = Idle /\ feed1 = Idle /\ feed2 = Idle /\ feed3 = Idle
    /\ today = DiffDay /\ delta = GtfsDelta /\ old_delta = Idle
    /\ second = Idle /\ output = "none"

NextLazy == LazyOpen \/ LazyAccess \/ LazyModify \/ LazyWrite \/ LazyReadAll

SpecLazy == InitLazy /\ [][NextLazy]_vars

\* C27: once a document is opened lazily its strings and ids are those of
\* the file, before any collection is decoded; over every sequence of
\* accesses, modifications, read_all() and write() the bytes of an entity
\* block are read from the file at most once; an access to a collection
\* that was accessed before returns the memoized collection and does not
\* read the file.
C27_LazyBlocksReadOnce ==
    pc = "opened" =>
        /\ io.rd.strings = io.src[B_STRINGS]
        /\ io.rd.id_store = io.src[B_IDS]
        /\ \A b \in EntityBlocks : io.reads[b] <= 1
        /\ (io.last.op = "access" /\ io.last.again) =>
               ~io.last.touched /\ io.last.result = io.last.memo

\* A block of the file was decoded by an access, written, and accessed
\* again: its bytes were read once.
C27_Witness ==
    /\ pc = "opened"
    /\ io.out.file # <<>>
    /\ io.last.op = "access" /\ io.last.again
    /\ io.reads[io.last.block] = 1
    /\ io.last.result = io.src[io.last.block]
    /\ io.last.result # <<>>

\* The payload of a block in the bytes of the last write(), found through
\* the sizes its header records.
WrittenPayload(out, b) ==
    LET h == out.header
        hlen == unpack_H(read(out.file, 0, 2))
        raw == read(out.file, 2 + hlen + SumSizes(h.blocks, b - 1), h.blocks[b])
    IN IF h.blocks[b] = 0 THEN <<>>
       ELSE IF h.compressed THEN Zstd_decompress(raw) ELSE raw

\* A collection that no access or assignment has touched is written with
\* the payload of the file the document was opened on.
UntouchedBlocksAreCopied ==
    (pc = "opened" /\ io.last.op = "write") =>
        \A b \in EntityBlocks \ DOMAIN io.cached :
            WrittenPayload(io.out, b) = io.src[b]

\* C29: after any sequence of access, modification, read_all() and write()
\* the bytes written hold, for every collection that was accessed or
\* assigned, the collection as it is in memory - with size 0 in the header
\* if it is empty - and for every other collection the payload of the
\* source file.
C29_WriteReflectsMemory ==
    (pc = "opened" /\ io.last.op = "write") =>
        \A b \in EntityBlocks :
            IF b \in DOMAIN io.cached
            THEN /\ io.cached[b] = <<>> => io.out.header.blocks[b] = 0
                 /\ WrittenPayload(io.out, b) = io.cached[b]
            ELSE WrittenPayload(io.out, b) = io.src[b]
----------------------------------------------------------------------------
(* BasePacker.sequence_reader (packers/base.py 42-89): the rows of a table *)
(* grouped by id, at most max_overlapping groups kept open.  A row is the  *)
(* record [id, seq, n]: its id column, its sequence column and its line    *)
(* number.  io is the record                                               *)
(*   rows, max_overlapping: the table and the argument;                    *)
(*   pos:       the number of rows table_reader has handed over;           *)
(*   ids:       the IdReference that table_reader adds to;                 *)
(*   cur_ids, cur_lists, seen_ids: the generator's locals;                 *)
(*   yielded:   what the generator has yielded, in order.                  *)

MaxSeqRows == 4

RECURSIVE SortBySeq(_)
\* list.sort(key=lambda r: r[0]): ascending by sequence number, rows of
\* equal number in the order they had.
SortBySeq(l) ==
    IF l = <<>> THEN <<>>
    ELSE LET m == CHOOSE i \in 1..Len(l) :
                      /\ \A j \in 1..Len(l) : l[i].seq <= l[j].seq
                      /\ \A j \in 1..(i - 1) : l[j].seq > l[i].seq
         IN <<l[m]>> \o SortBySeq(SubSeq(l, 1, m - 1) \o SubSeq(l, m + 1, Len(l)))

\* One yield: the rows sorted, the id and the original id of the first row.
sequence_reader_yield(rows, row_id) ==
    LET sorted == SortBySeq(rows)
    IN [rows |-> sorted, id |-> row_id, orig |-> sorted[1].id]

\* Variant of the loop body without the test of seen_ids.
sequence_reader_row_unchecked(st, row, row_id, max_overlapping) ==
    LET found == \E i \in 1..Len(st.cur_ids) : st.cur_ids[i] = row_id
        full == Len(st.cur_ids) >= max_overlapping
        ids == IF found THEN st.cur_ids
               ELSE Append(IF full THEN Tail(st.cur_ids) ELSE st.cur_ids, row_id)
        lists == IF found THEN st.cur_lists
                 ELSE Append(IF full THEN Tail(st.cur_lists) ELSE st.cur_lists,
                             <<>>)
        idx == CHOOSE i \in 1..Len(ids) :
                   ids[i] = row_id /\ \A j \in (i + 1)..Len(ids) : ids[j] # row_id
    IN [raised |-> FALSE,
        cur_ids |-> ids,
        cur_lists |-> [lists EXCEPT ![idx] = Append(@, row)],
        seen_ids |-> st.seen_ids \union {row_id},
        yielded |-> IF ~found /\ full
                    THEN Append(st.yielded,
                                sequence_reader_yield(st.cur_lists[1], st.cur_ids[1]))
                    ELSE st.yielded]

\* The body of the loop over table_reader for one row.
sequence_reader_row(st, row, row_id, max_overlapping) ==
    LET found == \E i \in 1..Len(st.cur_ids) : st.cur_ids[i] = row_id
        full == Len(st.cur_ids) >= max_overlapping
        ids == IF found THEN st.cur_ids
               ELSE Append(IF full THEN Tail(st.cur_ids) ELSE st.cur_ids, row_id)
        lists == IF found THEN st.cur_lists
                 ELSE Append(IF full THEN Tail(st.cur_lists) ELSE st.cur_lists,
                             <<>>)
        idx == CHOOSE i \in 1..Len(ids) :
                   ids[i] = row_id /\ \A j \in (i + 1)..Len(ids) : ids[j] # row_id
    IN IF ~found /\ row_id \in st.seen_ids
       THEN [st EXCEPT !.raised = TRUE]
       ELSE [raised |-> FALSE,
             cur_ids |-> ids,
             cur_lists |-> [lists EXCEPT ![idx] = Append(@, row)],
             seen_ids |-> st.seen_ids \union {row_id},
             yielded |-> IF ~found /\ full
                         THEN Append(st.yielded,
                                     sequence_reader_yield(st.cur_lists[1],
                                                           st.cur_ids[1]))
                         ELSE st.yielded]

\* The loop after the last row: every open group is yielded.
sequence_reader_rest(st) ==
    st.yielded \o [i \in 1..Len(st.cur_ids) |->
                      sequence_reader_yield(st.cur_lists[i], st.cur_ids[i])]

\* The generator takes the next row from table_reader.
SequenceRow ==
    /\ pc = "sequence"
    /\ io.pos < Len(io.rows)
    /\ LET row == io.rows[io.pos + 1]
           t == IdReference_add(io.ids, row.id)
           st == sequence_reader_row(
                     [raised |-> FALSE, cur_ids |-> io.cur_ids,
                      cur_lists |-> io.cur_lists, seen_ids |-> io.seen_ids,
                      yielded |-> io.yielded],
                     row, t.id, io.max_overlapping)
       IN IF st.raised
          THEN /\ pc' = "sequence_raised"
               /\ io' = [io EXCEPT !.ids = t.r]
          ELSE /\ pc' = "sequence"
               /\ io' = [io EXCEPT !.ids = t.r, !.pos = @ + 1,
                                   !.cur_ids = st.cur_ids,
                                   !.cur_lists = st.cur_lists,
                                   !.seen_ids = st.seen_ids,
                                   !.yielded = st.yielded]
    /\ UNCHANGED <<kind, feed1, feed2, feed3, delta, old_delta, second, today, output>>

\* table_reader is exhausted.
SequenceEnd ==
    /\ pc = "sequence"
    /\ io.pos = Len(io.rows)
    /\ io' = [io EXCEPT
                 !.yielded = sequence_reader_rest(
                     [cur_ids |-> io.cur_ids, cur_lists |-> io.cur_lists,
                      yielded |-> io.yielded]),
                 !.cur_ids = <<>>, !.cur_lists = <<>>]
    /\ pc' = "sequence_done"
    /\ UNCHANGED <<kind, feed1, feed2, feed3, delta, old_delta, second, today, output>>

SequenceIds == {"a", "b", "c"}

\* Every table of up to MaxSeqRows rows over three ids and two sequence
\* numbers, in any order.
SequenceTables ==
    UNION {
        {[i \in 1..n |-> [id |-> id[i], seq |-> seq[i], n |-> i]] :
            id \in [1..n -> SequenceIds], seq \in [1..n -> {1, 2}]} :
        n \in 0..MaxSeqRows}

InitSequence ==
    /\ pc = "sequence"
    /\ \E rows \in SequenceTables, max_overlapping \in {1, 2} :
          io = [rows |-> rows, max_overlapping |-> max_overlapping, pos |-> 0,
                ids |-> IdReference(<<>>),
                cur_ids |-> <<>>, cur_lists |-> <<>>, seen_ids |-> {},
                yielded |-> <<>>]
    /\ kind = Idle /\ feed1 = Idle /\ feed2 = Idle /\ feed3 = Idle
    /\ today = DiffDay /\ delta = GtfsDelta /\ old_delta = Idle
    /\ second = Idle /\ output = "none"

NextSequence == SequenceRow \/ SequenceEnd

SpecSequence == InitSequence /\ [][NextSequence]_vars

\* The ids of the first n rows of a table in order of first appearance.
FirstAppearance(rows, n) ==
    LET first == {i \in 1..n : \A j \in 1..(i - 1) : rows[j].id # rows[i].id}
        at == SetToSeq(first)
    IN [k \in 1..Len(at) |-> rows[at[k]].id]

\* C30: sequence_reader never holds more than max_overlapping groups; it
\* raises ValueError exactly when a row arrives for an id whose group has
\* been yielded already; otherwise it yields every distinct id once, in
\* order of first appearance, each with exactly the rows of that id in
\* ascending order of their sequence numbers.
C30_SequenceReader ==
    pc \in {"sequence", "sequence_raised", "sequence_done"} =>
        LET Yielded == {io.yielded[i].orig : i \in 1..Len(io.yielded)}
        IN /\ Len(io.cur_ids) <= io.max_overlapping
           /\ pc = "sequence_raised" => io.rows[io.pos + 1].id \in Yielded
           /\ \A j \in 1..io.pos, i \in 1..Len(io.yielded) :
                  io.yielded[i].orig = io.rows[j].id
                      => io.rows[j] \in Range(io.yielded[i].rows)
           /\ pc = "sequence_done" =>
                  /\ [i \in 1..Len(io.yielded) |-> io.yielded[i].orig]
                         = FirstAppearance(io.rows, Len(io.rows))
                  /\ \A i \in 1..Len(io.yielded) :
                        LET g == io.yielded[i].rows
                        IN /\ Range(g) = {io.rows[j] : j \in
                                             {k \in 1..Len(io.rows) :
                                                 io.rows[k].id = io.yielded[i].orig}}
                           /\ Cardinality(Range(g)) = Len(g)
                           /\ \A a, b \in 1..Len(g) :
                                  a < b => g[a].seq <= g[b].seq
                           /\ io.ids.ids[io.yielded[i].orig] = io.yielded[i].id

\* Three ids interleaved within the window: all rows read, three groups
\* yielded, one of them put in order by the sort.
C30_Witness ==
    /\ pc = "sequence_done"
    /\ io.max_overlapping = 2
    /\ Len(io.yielded) = 3
    /\ \E i \in 1..3 :
          /\ Len(io.yielded[i].rows) = 2
          /\ io.yielded[i].rows[1].n > io.yielded[i].rows[2].n
=============================================================================
